---- MODULE Spec2Model ----
(***************************************************************************)
(* Model of the aries hybrid solver: the optimisation loop of              *)
(* Solver::minimize_with, the search loop Solver::_solve, conflict         *)
(* handling, and the Backtrack implementation of Solver with its           *)
(* components (model, brancher, SAT engine, theories).                     *)
(***************************************************************************)
EXTENDS Integers, Sequences, FiniteSets, TLC

\* ------------------------------------------------------------------ bounds
\* Upper bound of the objective variable's initial domain [0, ObjUb].
ObjUb == 2
\* Number of theories registered with Solver::add_theory.
NumTheories == 1
\* Number of messages other workers put on the input channel during one run.
MaxSignals == 1
\* Number of operations of one run of the Backtrack interface.
MaxOps == 4

\* Values of ARIES_SMT_INITIALLY_ALLOWED_CONFLICT tried: a small budget and the
\* default.
SmallAllowedConflicts == 1
DefaultAllowedConflicts == 100
AllowedConflictsChoices == {SmallAllowedConflicts, DefaultAllowedConflicts}


\* ------------------------------------------------------- variables, literals
\* The variables of the model, in creation order.
VarSeq == <<"obj", "x">>
Vars == {VarSeq[i] : i \in 1..Len(VarSeq)}
ObjVar == "obj"

InitLb == [v \in Vars |-> 0]
InitUb == [v \in Vars |-> IF v = ObjVar THEN ObjUb ELSE 1]

\* Bound literals (v <= k) and (v >= k).
Leq(v, k) == [v |-> v, r |-> "leq", k |-> k]
Geq(v, k) == [v |-> v, r |-> "geq", k |-> k]
\* !lit
Not(l) == IF l.r = "leq" THEN Geq(l.v, l.k + 1) ELSE Leq(l.v, l.k - 1)
\* objective.lt_lit(lb): objective < lb, i.e. objective <= lb - 1
LtLit(v, k) == Leq(v, k - 1)

None == "none"

\* DecLvl arithmetic on u32: an overflow aborts (checked build) or wraps.
\* A level l >= 2^31 is written l - 2^32, so that u32::MAX is -1.
DecLvlOk(n) == [overflow |-> FALSE, lvl |-> n]
DecLvlOverflow == [overflow |-> TRUE, lvl |-> 0]
DecLvlAdd(n) == IF n = -1 THEN {DecLvlOk(0), DecLvlOverflow} ELSE {DecLvlOk(n + 1)}
DecLvlSub(n) == IF n = 0 THEN {DecLvlOk(-1), DecLvlOverflow} ELSE {DecLvlOk(n - 1)}
\* a > b on u32
DecLvlGt(a, b) == IF (a < 0) = (b < 0) THEN a > b ELSE a < 0

\* ------------------------------------------------------------ domain store
\* Domains: bounds, the trail of events (literal set, previous bound) and the
\* trail length at each save point.
NewDomains == [lb |-> InitLb, ub |-> InitUb, trail |-> <<>>, saved |-> <<>>]

Entails(d, l) == IF l.r = "leq" THEN d.ub[l.v] <= l.k ELSE d.lb[l.v] >= l.k
IsBound(d, v) == d.lb[v] = d.ub[v]
DomNumSaved(d) == Len(d.saved)

\* Domains::set / Domains::decide: res is "modified", "noop" or "contradiction".
\* An event records the literal set, the previous bound and the cause.
DomSet(d, l, cause) ==
    IF Entails(d, l) THEN [d |-> d, res |-> "noop"]
    ELSE IF Entails(d, Not(l)) THEN [d |-> d, res |-> "contradiction"]
    ELSE IF l.r = "leq"
         THEN [d |-> [d EXCEPT !.ub[l.v] = l.k,
                               !.trail = Append(@, [lit |-> l, prev |-> d.ub[l.v], cause |-> cause])],
               res |-> "modified"]
         ELSE [d |-> [d EXCEPT !.lb[l.v] = l.k,
                               !.trail = Append(@, [lit |-> l, prev |-> d.lb[l.v], cause |-> cause])],
               res |-> "modified"]

DomSaveState(d) == [d EXCEPT !.saved = Append(@, Len(d.trail))]

\* Undo the last event of the trail.
DomUndoLast(d) ==
    LET e == d.trail[Len(d.trail)]
        t == SubSeq(d.trail, 1, Len(d.trail) - 1)
    IN  IF e.lit.r = "leq"
        THEN [d EXCEPT !.ub[e.lit.v] = e.prev, !.trail = t]
        ELSE [d EXCEPT !.lb[e.lit.v] = e.prev, !.trail = t]

RECURSIVE DomUndoTo(_, _)
DomUndoTo(d, n) ==
    IF Len(d.trail) <= n THEN d
    ELSE CHOOSE r \in {DomUndoTo(d1, n) : d1 \in {DomUndoLast(d)}} : TRUE

\* restore_last: pop the events of the last level in reverse, then the level.
DomRestoreLast(d) ==
    LET mark == d.saved[Len(d.saved)]
        u == DomUndoTo(d, mark)
    IN  [u EXCEPT !.saved = SubSeq(@, 1, Len(@) - 1)]

\* restore(level): pop until num_saved() == level.
RECURSIVE DomRestore(_, _)
DomRestore(d, lvl) ==
    IF DecLvlGt(DomNumSaved(d), lvl)
    THEN CHOOSE r \in {DomRestore(d1, lvl) : d1 \in {DomRestoreLast(d)}} : TRUE
    ELSE d

\* Decision level of the i-th event of the trail.
EventLevel(d, i) == Cardinality({j \in 1..Len(d.saved) : d.saved[j] < i})

\* implying_event: index of the earliest event that made l true, 0 when none.
ImplyingEvent(d, l) ==
    LET hits == {i \in 1..Len(d.trail) :
                    /\ d.trail[i].lit.v = l.v
                    /\ d.trail[i].lit.r = l.r
                    /\ IF l.r = "leq" THEN d.trail[i].lit.k <= l.k
                                      ELSE d.trail[i].lit.k >= l.k}
    IN  IF hits = {} THEN 0 ELSE CHOOSE i \in hits : \A j \in hits : i <= j

\* value_of_clause: TRUE (some literal entailed), FALSE (all falsified), None.
ValueOfClause(d, c) ==
    IF \E l \in c : Entails(d, l) THEN "true"
    ELSE IF \A l \in c : Entails(d, Not(l)) THEN "false"
    ELSE None

\* ----------------------------------------------------------------- SAT engine
NewSat(cls) == [clauses |-> cls, saved |-> 0]

IsUnit(d, c) ==
    /\ ValueOfClause(d, c) = None
    /\ Cardinality({l \in c : ~Entails(d, Not(l))}) = 1

UnitLit(d, c) == CHOOSE l \in c : ~Entails(d, Not(l))

\* SatSolver::propagate: unit propagation until quiescence or a violated clause.
RECURSIVE SatPropagate(_, _)
SatPropagate(d, cls) ==
    IF \E c \in cls : ValueOfClause(d, c) = "false" THEN [d |-> d, ok |-> FALSE]
    ELSE IF \E c \in cls : IsUnit(d, c)
         THEN LET c == CHOOSE c \in cls : IsUnit(d, c)
              IN  CHOOSE r \in {SatPropagate(d1, cls) :
                                    d1 \in {DomSet(d, UnitLit(d, c), "inference").d}} : TRUE
         ELSE [d |-> d, ok |-> TRUE]

\* ------------------------------------------------------------------- brancher
\* Brancher: the queue of declared variables (one heap per stage; activities are
\* pseudo-random floats, so the order inside a heap is left open), the trail of
\* removals with its save points, the preferred values and the restart budget.
NewBrancher(preferMin, allowed) ==
    [prefer_min_value |-> preferMin,
     allowed_conflicts |-> allowed,
     conflicts_at_last_restart |-> 0,
     num_processed_var |-> 0,
     heap |-> {},
     heap_index |-> [v \in Vars |-> -1],
     stages |-> [v \in Vars |-> -1],
     default_assignment |-> [v \in {} |-> 0],
     trail |-> <<>>,
     saved |-> <<>>]

\* Brancher::import_vars: declare and enqueue the variables not processed yet.
\* heap_index is the position in heaps of the heap a queued variable is in (-1
\* when it is in none), stages the stage it was declared with.
BrImportVars(b, d) ==
    LET new == {VarSeq[i] : i \in (b.num_processed_var + 1)..Len(VarSeq)}
        priority(v) == IF d.ub[v] - d.lb[v] + 1 <= 1 THEN 0 ELSE 1
    IN  [b EXCEPT !.heap = @ \cup new,
                  !.heap_index = [v \in Vars |-> IF v \in new THEN priority(v) ELSE @[v]],
                  !.stages = [v \in Vars |-> IF v \in new THEN priority(v) ELSE @[v]],
                  !.num_processed_var = Len(VarSeq)]

\* The variables of a set in creation order.
RECURSIVE SeqOfVars(_, _)
SeqOfVars(S, i) ==
    IF i > Len(VarSeq) THEN <<>>
    ELSE (IF VarSeq[i] \in S THEN <<VarSeq[i]>> ELSE <<>>) \o SeqOfVars(S, i + 1)

\* Popper::pop of every variable of P without the event on the trail
BrPopAll_Unlogged(b, P) ==
    [b EXCEPT !.heap = @ \ P,
              !.heap_index = [v \in Vars |-> IF v \in P THEN -1 ELSE @[v]]]

\* Popper::pop of every variable of P: each removal is logged with the stage
\* of the popper, the position of the heap it pops from.
BrPopAll(b, P) ==
    LET ps == SeqOfVars(P, 1)
    IN  [b EXCEPT !.heap = @ \ P,
                  !.heap_index = [v \in Vars |-> IF v \in P THEN -1 ELSE @[v]],
                  !.trail = @ \o [i \in 1..Len(ps) |->
                                     [var |-> ps[i], stage |-> b.heap_index[ps[i]]]]]

DecisionLiteral_BoundFirst(b, v, lb, ub) ==
    LET value == IF v \in DOMAIN b.default_assignment THEN b.default_assignment[v]
                 ELSE IF b.prefer_min_value THEN lb ELSE ub
    IN  IF value < lb \/ value > ub
        THEN (IF b.prefer_min_value THEN Leq(v, lb) ELSE Geq(v, ub))
        ELSE IF b.prefer_min_value THEN Leq(v, lb) ELSE Geq(v, ub)

DecisionLiteral_GeqWhenNotBelow(b, v, lb, ub) ==
    LET value == IF v \in DOMAIN b.default_assignment THEN b.default_assignment[v]
                 ELSE IF b.prefer_min_value THEN lb ELSE ub
    IN  IF value < lb \/ value > ub
        THEN (IF b.prefer_min_value THEN Leq(v, lb) ELSE Geq(v, ub))
        ELSE IF ub > value /\ b.prefer_min_value THEN Leq(v, value)
        ELSE Geq(v, value)

\* The literal next_decision builds for variable v with domain [lb, ub].
DecisionLiteral(b, v, lb, ub) ==
    LET value == IF v \in DOMAIN b.default_assignment THEN b.default_assignment[v]
                 ELSE IF b.prefer_min_value THEN lb ELSE ub
    IN  IF value < lb \/ value > ub
        THEN (IF b.prefer_min_value THEN Leq(v, lb) ELSE Geq(v, ub))
        ELSE IF ub > value /\ b.prefer_min_value THEN Leq(v, value)
        ELSE IF lb < value THEN Geq(v, value)
        ELSE Leq(v, value)

\* An f32 has a significand of 24 bits: the integers below 2^24 are exact.
F32Significand == 16777216
\* The spacing of the f32 values around n.
RECURSIVE Ulp(_, _)
Ulp(n, u) == IF n \div u < F32Significand THEN u ELSE Ulp(n, 2 * u)
\* The f32 nearest to n, ties to the even significand.
F32Round(n) ==
    LET u == Ulp(n, 1)
        q == n \div u
        r == n % u
    IN  IF 2 * r < u \/ (2 * r = u /\ q % 2 = 0) THEN q * u ELSE (q + 1) * u

\* The restart budget after a restart:
\* (allowed_conflicts as f32 * increase_ratio) as u64 with the ratio 1.5. The
\* cast to f32 rounds, the product is rounded again (counted here in halves)
\* and the cast to u64 truncates.
IncreasedAllowedConflicts(a) == F32Round(3 * F32Round(a)) \div 2

RestartDue_Strict(b, stats) ==
    stats.num_conflicts - b.conflicts_at_last_restart > b.allowed_conflicts

RestartDue(b, stats) ==
    stats.num_conflicts - b.conflicts_at_last_restart >= b.allowed_conflicts

\* Decision::SetLiteral, Decision::Restart and the absence of a decision.
SetLiteral(l) == [kind |-> "SetLiteral", lit |-> l]
Restart == [kind |-> "Restart"]
NoDecision == [kind |-> "None"]

\* Brancher::next_decision: the possible outcomes [b, dec]. Bound variables
\* peeked before the selected one are popped.
BrNextDecision(b0, stats, d) ==
    LET b == BrImportVars(b0, d)
        unset == {v \in b.heap : ~IsBound(d, v)}
    IN  IF unset = {}
        THEN {[b |-> BrPopAll(b, b.heap), dec |-> NoDecision]}
        ELSE LET s == CHOOSE s \in {b.heap_index[v] : v \in unset} :
                          \A v \in unset : s <= b.heap_index[v]
                 below == {v \in b.heap : b.heap_index[v] < s}
                 same == {v \in b.heap : b.heap_index[v] = s /\ IsBound(d, v)}
             IN  {[b |-> IF RestartDue(b, stats)
                         THEN [BrPopAll(b, below \cup P) EXCEPT
                                  !.conflicts_at_last_restart = stats.num_conflicts,
                                  !.allowed_conflicts = IncreasedAllowedConflicts(@)]
                         ELSE BrPopAll(b, below \cup P),
                   dec |-> IF RestartDue(b, stats) THEN Restart
                           ELSE SetLiteral(DecisionLiteral(b, v, d.lb[v], d.ub[v]))] :
                    v \in {u \in unset : b.heap_index[u] = s}, P \in SUBSET same}

\* Brancher::set_default_values_from: the values of an assignment become the
\* preferred ones.
BrSetDefaultValuesFrom(b, d, assignment) ==
    [BrImportVars(b, d) EXCEPT
        !.default_assignment = [v \in DOMAIN @ \cup DOMAIN assignment |->
                                   IF v \in DOMAIN assignment THEN assignment[v] ELSE @[v]]]

\* Brancher::set_default_value
BrSetDefaultValue(b, var, val) ==
    [b EXCEPT !.default_assignment = [v \in DOMAIN @ \cup {var} |->
                                         IF v = var THEN val ELSE @[v]]]

BrSaveState(b) == [b EXCEPT !.saved = Append(@, Len(b.trail))]
BrNumSaved(b) == Len(b.saved)

BrRestoreLast_NoEnqueue(b) ==
    [b EXCEPT !.trail = SubSeq(@, 1, b.saved[Len(b.saved)]),
              !.saved = SubSeq(@, 1, Len(@) - 1)]

\* VarSelect::restore_last: every removal of the last level is enqueued again,
\* in the heap at the position the event names.
BrRestoreLast(b) ==
    LET mark == b.saved[Len(b.saved)]
        undone == (mark + 1)..Len(b.trail)
        back == {b.trail[i].var : i \in undone}
        prio(v) == b.trail[CHOOSE i \in undone : b.trail[i].var = v].stage
    IN  [b EXCEPT !.heap = @ \cup back,
                  !.heap_index = [v \in Vars |-> IF v \in back THEN prio(v) ELSE @[v]],
                  !.trail = SubSeq(@, 1, mark),
                  !.saved = SubSeq(@, 1, Len(@) - 1)]

\* Backtrack::restore (the trait's default): restore_last until num_saved = level.
RECURSIVE BrRestore(_, _)
BrRestore(b, lvl) ==
    IF DecLvlGt(BrNumSaved(b), lvl)
    THEN CHOOSE r \in {BrRestore(b1, lvl) : b1 \in {BrRestoreLast(b)}} : TRUE
    ELSE b

\* --------------------------------------------------------- SAT and theories
SatSaveState(s) == [s EXCEPT !.saved = @ + 1]
SatRestore(s, lvl) == [s EXCEPT !.saved = IF DecLvlGt(@, lvl) THEN lvl ELSE @]
SatAddClause(s, c) == [s EXCEPT !.clauses = @ \cup {c}]

NewTheory == [saved |-> 0]
ThSaveState(t) == [t EXCEPT !.saved = @ + 1]
ThRestore(t, lvl) == [t EXCEPT !.saved = IF DecLvlGt(@, lvl) THEN lvl ELSE @]

\* -------------------------------------------------------------------- problems
\* The clause sets given to the solver before the search.
Problems ==
    { {{Geq("x", 1), Geq(ObjVar, 1)}},
      {{Leq("x", 0), Geq(ObjVar, 1)}, {Leq("x", 0), Leq(ObjVar, 0)}},
      {{Geq(ObjVar, 1)}, {Geq("x", 1), Leq(ObjVar, 1)}},
      {{Geq("x", 1)}, {Leq("x", 0), Geq(ObjVar, 1)}, {Leq(ObjVar, 0)}} }

\* Total assignments of the variables within their initial domains.
Assignments == {a \in [Vars -> 0..ObjUb] : \A v \in Vars : a[v] <= InitUb[v]}
Holds(a, l) == IF l.r = "leq" THEN a[l.v] <= l.k ELSE a[l.v] >= l.k
Satisfies(a, cls) == \A c \in cls : \E l \in c : Holds(a, l)
Implied(cls, c) == \A a \in Assignments : Satisfies(a, cls) => \E l \in c : Holds(a, l)

\* ---------------------------------------------------------------------- solver
\* Solver::new followed by add_theory and the problem's clauses.
NewSolver(cls, preferMin, allowed) ==
    [model |-> NewDomains,
     brancher |-> NewBrancher(preferMin, allowed),
     sat |-> NewSat(cls),
     theories |-> [i \in 1..NumTheories |-> NewTheory],
     decision_level |-> 0,
     stats |-> [num_conflicts |-> 0, num_restarts |-> 0, num_decisions |-> 0],
     panicked |-> FALSE]

\* A failed assertion aborts the call and leaves the state as it is.
Panic(s) == [s EXCEPT !.panicked = TRUE]

RECURSIVE SaveTheories(_, _, _)
SaveTheories(s, i, n) ==
    IF i > Len(s.theories) THEN s
    ELSE LET s1 == [s EXCEPT !.theories[i] = ThSaveState(@)]
         IN  IF s1.theories[i].saved # n THEN Panic(s1) ELSE SaveTheories(s1, i + 1, n)

\* Solver::save_state with decision_level already incremented to n.
SaveStateAt(s, n) ==
    LET s1 == [s EXCEPT !.decision_level = n, !.model = DomSaveState(@)]
        s2 == [s1 EXCEPT !.brancher = BrSaveState(@)]
        s3 == [s2 EXCEPT !.sat = SatSaveState(@)]
    IN  IF DomNumSaved(s1.model) # n THEN Panic(s1)
        ELSE IF BrNumSaved(s2.brancher) # n THEN Panic(s2)
        ELSE IF s3.sat.saved # n THEN Panic(s3)
        ELSE SaveTheories(s3, 1, n)

\* Solver::save_state: the possible outcomes.
SolverSaveState(s) ==
    {IF n.overflow THEN Panic(s) ELSE SaveStateAt(s, n.lvl) :
        n \in DecLvlAdd(s.decision_level)}

\* The depths the components report.
ComponentDepths(s) ==
    {DomNumSaved(s.model), BrNumSaved(s.brancher), s.sat.saved}
        \cup {s.theories[i].saved : i \in 1..Len(s.theories)}

SolverRestore_BrancherKept(s, saved_id) ==
    {[s EXCEPT !.decision_level = saved_id,
               !.model = DomRestore(@, saved_id),
               !.sat = SatRestore(@, saved_id),
               !.theories = [i \in 1..Len(s.theories) |-> ThRestore(@[i], saved_id)]]}

\* Solver::restore: the possible outcomes (the final debug assertion aborts a
\* checked build when the depths differ from saved_id).
SolverRestore(s, saved_id) ==
    LET r == [s EXCEPT !.decision_level = saved_id,
                       !.model = DomRestore(@, saved_id),
                       !.brancher = BrRestore(@, saved_id),
                       !.sat = SatRestore(@, saved_id),
                       !.theories = [i \in 1..Len(s.theories) |-> ThRestore(@[i], saved_id)]]
    IN  IF ComponentDepths(r) = {saved_id} THEN {r} ELSE {r, Panic(r)}

\* Solver::restore_last: the possible outcomes.
SolverRestoreLast(s) ==
    IF ~DecLvlGt(s.decision_level, 0) THEN {Panic(s)}
    ELSE UNION {IF r.panicked THEN {r}
                ELSE {IF m.overflow THEN Panic(r) ELSE [r EXCEPT !.decision_level = m.lvl] :
                         m \in DecLvlSub(r.decision_level)} :
                   r \in SolverRestore(s, s.decision_level - 1)}

\* Backtrack::reset: back to the root level.
SolverReset(s) == SolverRestore(s, 0)

\* The part of Solver::decide after save_state.
DecideAfterSave(s, decision) ==
    LET res == DomSet(s.model, decision, "decision")
    IN  IF res.res # "modified" THEN Panic([s EXCEPT !.model = res.d])
        ELSE [s EXCEPT !.model = res.d, !.stats.num_decisions = @ + 1]

SolverDecide_NoSave(s, decision) == {DecideAfterSave(s, decision)}

\* Solver::decide: the possible outcomes.
SolverDecide(s, decision) ==
    {IF s1.panicked THEN s1 ELSE DecideAfterSave(s1, decision) : s1 \in SolverSaveState(s)}

\* refine_explanation: the clauses a conflict may be explained by, made of negated
\* decisions of the trail.
Decisions(d) == {d.trail[i].lit : i \in {j \in 1..Len(d.trail) : d.trail[j].cause = "decision"}}
Explanations(d, cls) ==
    {c \in {{Not(l) : l \in D} : D \in SUBSET Decisions(d)} : Implied(cls, c)}

\* Solver::propagate: the possible outcomes [s, ok, clause].
SolverPropagate(s) ==
    LET p == SatPropagate(s.model, s.sat.clauses)
        s1 == [s EXCEPT !.model = p.d]
    IN  IF p.ok THEN {[s |-> s1, ok |-> TRUE, clause |-> {}]}
        ELSE {[s |-> [s1 EXCEPT !.stats.num_conflicts = @ + 1], ok |-> FALSE, clause |-> c] :
                 c \in Explanations(p.d, s.sat.clauses)}

\* Solver::backtrack_level_for_clause: max is the highest level at which a literal
\* of the clause was falsified, max_next the second highest (max itself when two
\* literals were falsified at that level).
LitLevel(d, l) ==
    LET ev == ImplyingEvent(d, Not(l)) IN IF ev = 0 THEN 0 ELSE EventLevel(d, ev)

Maximum(S) == IF S = {} THEN 0 ELSE CHOOSE m \in S : \A n \in S : n <= m

BacktrackLevelForClause_LevelOneIsRoot(d, clause) ==
    LET max == Maximum({LitLevel(d, l) : l \in clause})
        atMax == {l \in clause : LitLevel(d, l) = max}
        max_next == IF Cardinality(atMax) >= 2 THEN max
                    ELSE Maximum({LitLevel(d, l) : l \in clause \ atMax})
    IN  IF max <= 1 THEN [some |-> FALSE, lvl |-> 0]
        ELSE IF max = max_next THEN [some |-> TRUE, lvl |-> max - 1]
        ELSE [some |-> TRUE, lvl |-> max_next]

RECURSIVE BacktrackLevelLoop_SecondForgotten(_, _, _, _)
BacktrackLevelLoop_SecondForgotten(d, lits, max, max_next) ==
    IF lits = <<>> THEN [max |-> max, max_next |-> max_next]
    ELSE LET ev == ImplyingEvent(d, Not(Head(lits)))
             dl == EventLevel(d, ev)
         IN  IF ev = 0 THEN BacktrackLevelLoop_SecondForgotten(d, Tail(lits), max, max_next)
             ELSE IF dl > max THEN BacktrackLevelLoop_SecondForgotten(d, Tail(lits), dl, max)
             ELSE BacktrackLevelLoop_SecondForgotten(d, Tail(lits), max, max_next)

\* backtrack_level_for_clause: the loop over the literals of the clause, which
\* keeps the two highest levels met so far.
RECURSIVE BacktrackLevelLoop(_, _, _, _)
BacktrackLevelLoop(d, lits, max, max_next) ==
    IF lits = <<>> THEN [max |-> max, max_next |-> max_next]
    ELSE LET ev == ImplyingEvent(d, Not(Head(lits)))
             dl == EventLevel(d, ev)
         IN  IF ev = 0 THEN BacktrackLevelLoop(d, Tail(lits), max, max_next)
             ELSE IF dl > max THEN BacktrackLevelLoop(d, Tail(lits), dl, max)
             ELSE IF dl > max_next THEN BacktrackLevelLoop(d, Tail(lits), max, dl)
             ELSE BacktrackLevelLoop(d, Tail(lits), max, max_next)

\* backtrack_level_for_clause on the slice of literals lits
BacktrackLevelForSlice(d, lits) ==
    LET r == BacktrackLevelLoop(d, lits, 0, 0)
    IN  IF r.max = 0 THEN [some |-> FALSE, lvl |-> 0]
        ELSE IF r.max = r.max_next THEN [some |-> TRUE, lvl |-> r.max - 1]
        ELSE [some |-> TRUE, lvl |-> r.max_next]

\* The literals of a clause in the order of the slice: any order.
RECURSIVE LitSeq(_)
LitSeq(clause) ==
    IF clause = {} THEN <<>>
    ELSE LET l == CHOOSE x \in clause : TRUE IN <<l>> \o LitSeq(clause \ {l})

BacktrackLevelForClause(d, clause) == BacktrackLevelForSlice(d, LitSeq(clause))

AddConflictingClauseAndBacktrack_AddedFirst(s, expl) ==
    LET dl == BacktrackLevelForClause(s.model, expl)
    IN  {[s |-> [s EXCEPT !.sat = SatAddClause(@, expl)], ok |-> dl.some]}

\* Solver::add_conflicting_clause_and_backtrack: the possible outcomes [s, ok].
AddConflictingClauseAndBacktrack(s, expl) ==
    LET dl == BacktrackLevelForClause(s.model, expl)
    IN  IF dl.some
        THEN UNION {
               LET s1 == [r EXCEPT !.brancher = BrImportVars(@, r.model),
                                   !.sat = SatAddClause(@, expl)]
               IN  IF r.panicked THEN {[s |-> r, ok |-> TRUE]}
                   ELSE IF ValueOfClause(r.model, expl) # None
                        THEN {[s |-> s1, ok |-> TRUE], [s |-> Panic(r), ok |-> TRUE]}
                        ELSE {[s |-> s1, ok |-> TRUE]} :
               r \in SolverRestore(s, dl.lvl)}
        ELSE {[s |-> s, ok |-> FALSE]}

\* ------------------------------------------------------------------- signals
Interrupt == [kind |-> "Interrupt"]
LearnedClause(c) == [kind |-> "LearnedClause", clause |-> c]
SolutionFound(a) == [kind |-> "SolutionFound", assignment |-> a]

\* What _solve does with one signal read from the channel: the solver afterwards
\* and whether the loop goes on, returns Err(Interrupted) or returns the
\* external solution.
HandleSignal_InterruptIgnored(s, signal) ==
    IF signal.kind = "SolutionFound" THEN [s |-> s, ret |-> "ExternalSolution"]
    ELSE IF signal.kind = "LearnedClause"
         THEN [s |-> [s EXCEPT !.sat = SatAddClause(@, signal.clause)], ret |-> "continue"]
         ELSE [s |-> s, ret |-> "continue"]

HandleSignal(s, signal) ==
    IF signal.kind = "Interrupt" THEN [s |-> s, ret |-> "Interrupted"]
    ELSE IF signal.kind = "LearnedClause"
         THEN [s |-> [s EXCEPT !.sat = SatAddClause(@, signal.clause)], ret |-> "continue"]
         ELSE [s |-> s, ret |-> "ExternalSolution"]

\* ------------------------------------------------------------ minimize_with
\* sol.domain_of(objective).0
ObjectiveValue(sol) == sol[ObjVar]

IsImprovement_OrEqual(b, lb) == IF b.some THEN lb <= b.lb ELSE TRUE
IsImprovement_Always(b, lb) == TRUE

\* is_improvement
IsImprovement(b, lb) == IF b.some THEN lb < b.lb ELSE TRUE

TighteningClause_NotStrict(lb) == {Leq(ObjVar, lb)}

\* The clause [objective.lt_lit(lb)] added after an improving solution.
TighteningClause(lb) == {LtLit(ObjVar, lb)}

\* ------------------------------------------------------------------ state
VARIABLES
    solver,      \* the Solver: model, brancher, reasoners, decision_level, stats
    signals,     \* sync.signals: the input channel
    output,      \* what the solver sent on its output channel
    pc,          \* the control point of the running call
    best,        \* minimize_with: the best solution found so far
    cur,         \* minimize_with: the solution being processed
    conflict,    \* propagate_and_backtrack_to_consistent: the conflict at hand
    result,      \* the value returned by the call
    callbacks,   \* the objective values on_new_solution was called with
    recorded,    \* the solutions handed to brancher.new_assignment_found, in order
    obtained,    \* the solutions _solve returned, local or external, in order
    delivered,   \* number of messages put on the input channel
    lastOp,      \* the last operation of the Backtrack interface
    preLevel,    \* decision_level before the last operation
    hist,        \* the operations still in effect: those of the levels not undone
    nops,        \* number of operations of the Backtrack interface so far
    problem,     \* the clauses given to the solver before the search
    unpropagated, \* a signal was consumed and no propagation has completed since
    cdcl,        \* the boolean CDCL solver of src/src/main.rs
    br,          \* a Brancher driven directly through its public interface
    mdl,         \* a Model on which expressions are reified and bound
    lcp,         \* the planner of src/apps/src/bin/lcp.rs and src/planners/src/bin/lcp.rs
    bnd,         \* a Solver draining the binding queue of its model
    vld          \* the time model of the plan validator

vars == <<solver, signals, output, pc, best, cur, conflict, result, callbacks,
          recorded, obtained, delivered, lastOp, preLevel, hist, nops, problem,
          unpropagated, cdcl, br, mdl, lcp, bnd, vld>>

searchVars == <<signals, output, pc, best, cur, conflict, result, callbacks,
                recorded, obtained, delivered, problem, unpropagated>>
apiVars == <<lastOp, preLevel, hist, nops>>
\* The state of the other programs of the repository, which the SMT solver
\* does not touch.
otherVars == <<cdcl, br, mdl, lcp, bnd, vld>>
Off == [pc |-> "off"]

NoBest == [some |-> FALSE]
Running == [kind |-> "running"]

InitCommon(preferMins, alloweds) ==
    /\ problem \in Problems
    /\ \E preferMin \in preferMins, allowed \in alloweds :
          solver = NewSolver(problem, preferMin, allowed)
    /\ unpropagated = FALSE
    /\ signals = <<>>
    /\ output = <<>>
    /\ best = NoBest
    /\ cur = [kind |-> "none"]
    /\ conflict = {}
    /\ result = Running
    /\ callbacks = <<>>
    /\ recorded = <<>>
    /\ obtained = <<>>
    /\ delivered = 0
    /\ lastOp = "new"
    /\ preLevel = 0
    /\ hist = <<>>
    /\ nops = 0

\* ------------------------------------------- the Backtrack interface of Solver
\* The literals a caller may decide on.
DecideLits ==
    {Leq(v, k) : v \in Vars, k \in 0..(ObjUb - 1)} \cup {Geq(v, k) : v \in Vars, k \in 1..ObjUb}

DecidableLits == {l \in DecideLits : l.k <= InitUb[l.v]}

\* The operations in effect after a restore to lvl: those before save number lvl+1.
RECURSIVE KeepLevels(_, _)
KeepLevels(h, lvl) ==
    IF h = <<>> THEN <<>>
    ELSE IF Head(h).op = "save"
         THEN (IF lvl = 0 THEN <<>> ELSE <<Head(h)>> \o KeepLevels(Tail(h), lvl - 1))
         ELSE <<Head(h)>> \o KeepLevels(Tail(h), lvl)

NumSaves(h) == Cardinality({i \in 1..Len(h) : h[i].op = "save"})

ApiStep(op) ==
    /\ pc = "api"
    /\ ~solver.panicked
    /\ nops < MaxOps
    /\ nops' = nops + 1
    /\ lastOp' = op
    /\ preLevel' = solver.decision_level
    /\ UNCHANGED <<searchVars, otherVars>>

BtSaveState ==
    /\ ApiStep("save_state")
    /\ solver' \in SolverSaveState(solver)
    /\ hist' = Append(hist, [op |-> "save"])

BtRestoreLast ==
    /\ ApiStep("restore_last")
    /\ solver' \in SolverRestoreLast(solver)
    /\ hist' = KeepLevels(hist, solver.decision_level - 1)

BtRestore ==
    /\ ApiStep("restore")
    /\ \E lvl \in 0..DomNumSaved(solver.model) :
          /\ solver' \in SolverRestore(solver, lvl)
          /\ hist' = KeepLevels(hist, lvl)

BtDecide ==
    /\ ApiStep("decide")
    /\ \E l \in DecidableLits :
          /\ solver' \in SolverDecide(solver, l)
          /\ hist' = hist \o <<[op |-> "save"], [op |-> "set", lit |-> l]>>

BtPropagate ==
    /\ ApiStep("propagate")
    /\ \E p \in SolverPropagate(solver) : solver' = p.s
    /\ hist' = Append(hist, [op |-> "propagate"])

InitBt == InitCommon({TRUE}, {DefaultAllowedConflicts}) /\ pc = "api" /\ cdcl = Off /\ br = Off /\ mdl = Off /\ lcp = Off /\ bnd = Off /\ vld = Off
NextBt == BtSaveState \/ BtRestoreLast \/ BtRestore \/ BtDecide \/ BtPropagate
SpecBt == InitBt /\ [][NextBt]_vars

\* ------------------------------------- minimize_with and the search loop _solve
OkResult(b) == [kind |-> "Ok", best |-> b]
ErrInterrupted == [kind |-> "Err", exit |-> "Interrupted"]

\* The signals other workers may send: an interruption; a clause of one or two
\* literals that follows from the problem, is not part of it and has no proper
\* part that follows from it; one solution of the problem per objective value.
SmallClauses ==
    {{l} : l \in DecidableLits} \cup {{l, m} : l \in DecidableLits, m \in DecidableLits}
ExternalClauses(cls) ==
    {c \in SmallClauses \ cls :
        /\ Implied(cls, c)
        /\ \A l \in c : ~Implied(cls, c \ {l})}
Solutions(cls) == {a \in Assignments : Satisfies(a, cls)}
ExternalSolutions(cls) ==
    {CHOOSE a \in Solutions(cls) : ObjectiveValue(a) = v :
        v \in {ObjectiveValue(b) : b \in Solutions(cls)}}
ExternalSignals(cls) ==
    {Interrupt}
        \cup {LearnedClause(c) : c \in ExternalClauses(cls)}
        \cup {SolutionFound(a) : a \in ExternalSolutions(cls)}
ExternalSignalsOf == [cls \in Problems |-> ExternalSignals(cls)]

SearchStep(at) ==
    /\ pc = at
    /\ ~solver.panicked
    /\ UNCHANGED <<apiVars, problem, delivered, otherVars>>

\* Another worker puts a signal on the input channel.
Deliver ==
    /\ pc \notin {"api", "done"}
    /\ delivered < MaxSignals
    /\ \E m \in ExternalSignalsOf[problem] : signals' = Append(signals, m)
    /\ delivered' = delivered + 1
    /\ UNCHANGED <<solver, output, pc, best, cur, conflict, result, callbacks, recorded,
                   obtained, apiVars, problem, unpropagated, otherVars>>

\* _solve, loop top: try_recv returns Interrupt, and the best solution is
\* returned when there is one
PollInterrupted_ReturnsBest ==
    /\ SearchStep("poll")
    /\ signals # <<>>
    /\ LET h == HandleSignal(solver, Head(signals))
       IN  /\ h.ret = "Interrupted"
           /\ solver' = h.s
    /\ signals' = Tail(signals)
    /\ result' = IF best.some THEN OkResult(best) ELSE ErrInterrupted
    /\ pc' = "done"
    /\ UNCHANGED <<output, best, cur, conflict, callbacks, recorded, obtained, unpropagated>>

\* _solve, loop top: try_recv returns Interrupt.
PollInterrupted ==
    /\ SearchStep("poll")
    /\ signals # <<>>
    /\ LET h == HandleSignal(solver, Head(signals))
       IN  /\ h.ret = "Interrupted"
           /\ solver' = h.s
    /\ signals' = Tail(signals)
    /\ result' = ErrInterrupted
    /\ pc' = "done"
    /\ UNCHANGED <<output, best, cur, conflict, callbacks, recorded, obtained, unpropagated>>

\* _solve, loop top: try_recv returns a learned clause, and the loop polls again.
PollContinue ==
    /\ SearchStep("poll")
    /\ signals # <<>>
    /\ LET h == HandleSignal(solver, Head(signals))
       IN  /\ h.ret = "continue"
           /\ solver' = h.s
    /\ signals' = Tail(signals)
    /\ unpropagated' = TRUE
    /\ UNCHANGED <<output, pc, best, cur, conflict, result, callbacks, recorded, obtained>>

\* _solve, loop top: try_recv returns a solution of another worker; _solve returns
\* ExternalSolution to minimize_with.
PollExternalSolution ==
    /\ SearchStep("poll")
    /\ signals # <<>>
    /\ LET h == HandleSignal(solver, Head(signals))
       IN  /\ h.ret = "ExternalSolution"
           /\ solver' = h.s
    /\ signals' = Tail(signals)
    /\ cur' = [kind |-> "ExternalSolution", sol |-> Head(signals).assignment]
    /\ obtained' = Append(obtained, [lb |-> ObjectiveValue(Head(signals).assignment),
                                     from |-> "external"])
    /\ pc' = "solved"
    /\ unpropagated' = TRUE
    /\ UNCHANGED <<output, best, conflict, result, callbacks, recorded>>

PollEmpty_SkipPropagation ==
    /\ SearchStep("poll")
    /\ signals = <<>>
    /\ pc' = "decide"
    /\ UNCHANGED <<solver, signals, output, best, cur, conflict, result, callbacks,
                   recorded, obtained, unpropagated>>

\* _solve, loop top: the channel is empty, propagation comes next.
PollEmpty ==
    /\ SearchStep("poll")
    /\ signals = <<>>
    /\ pc' = "propagate"
    /\ UNCHANGED <<solver, signals, output, best, cur, conflict, result, callbacks,
                   recorded, obtained, unpropagated>>

\* propagate_and_backtrack_to_consistent: propagate returns Ok.
PropagateOk ==
    /\ SearchStep("propagate")
    /\ \E p \in SolverPropagate(solver) :
          /\ p.ok
          /\ solver' = p.s
    /\ pc' = "decide"
    /\ unpropagated' = FALSE
    /\ UNCHANGED <<signals, output, best, cur, conflict, result, callbacks, recorded,
                   obtained>>

\* propagate_and_backtrack_to_consistent: propagate returns a conflict.
PropagateConflict ==
    /\ SearchStep("propagate")
    /\ \E p \in SolverPropagate(solver) :
          /\ ~p.ok
          /\ solver' = p.s
          /\ conflict' = p.clause
    /\ pc' = "conflict"
    /\ UNCHANGED <<signals, output, best, cur, result, callbacks, recorded, obtained,
                   unpropagated>>

\* propagate_and_backtrack_to_consistent: the conflict is sent to the other
\* workers, learnt, and the solver backtracks; propagation is repeated.
LearnAndBacktrack ==
    /\ SearchStep("conflict")
    /\ \E r \in AddConflictingClauseAndBacktrack(solver, conflict) :
          /\ r.ok
          /\ solver' = r.s
    /\ output' = Append(output, [kind |-> "Learnt", clause |-> conflict])
    /\ pc' = "propagate"
    /\ conflict' = {}
    /\ UNCHANGED <<signals, best, cur, result, callbacks, recorded, obtained, unpropagated>>

\* The conflict holds at the root: _solve returns Unsat and minimize_with returns
\* the best solution found so far.
ReturnUnsat ==
    /\ SearchStep("conflict")
    /\ \E r \in AddConflictingClauseAndBacktrack(solver, conflict) :
          /\ ~r.ok
          /\ solver' = r.s
    /\ output' = Append(output, [kind |-> "Learnt", clause |-> conflict])
    /\ result' = OkResult(best)
    /\ pc' = "done"
    /\ UNCHANGED <<signals, best, cur, conflict, callbacks, recorded, obtained, unpropagated>>

\* _solve: the brancher returns a literal, which is decided.
Decide ==
    /\ SearchStep("decide")
    /\ \E o \in BrNextDecision(solver.brancher, solver.stats, solver.model) :
          /\ o.dec.kind = "SetLiteral"
          /\ solver' \in SolverDecide([solver EXCEPT !.brancher = o.b], o.dec.lit)
    /\ pc' = "poll"
    /\ UNCHANGED <<signals, output, best, cur, conflict, result, callbacks, recorded,
                   obtained, unpropagated>>

\* _solve: the brancher asks for a restart.
DoRestart ==
    /\ SearchStep("decide")
    /\ \E o \in BrNextDecision(solver.brancher, solver.stats, solver.model) :
          /\ o.dec.kind = "Restart"
          /\ solver' \in {[r EXCEPT !.stats.num_restarts = @ + 1] :
                             r \in SolverReset([solver EXCEPT !.brancher = o.b])}
    /\ pc' = "poll"
    /\ UNCHANGED <<signals, output, best, cur, conflict, result, callbacks, recorded,
                   obtained, unpropagated>>

\* _solve: no decision is left and _solve returns AtSolution; minimize_with saves
\* the assignment, sends it to the other workers and calls on_new_solution.
AtSolution ==
    /\ SearchStep("decide")
    /\ \E o \in BrNextDecision(solver.brancher, solver.stats, solver.model) :
          /\ o.dec.kind = "None"
          /\ solver' = [solver EXCEPT !.brancher = o.b]
    /\ LET sol == solver.model.lb
       IN  /\ cur' = [kind |-> "AtSolution", sol |-> sol]
           /\ output' = Append(output, [kind |-> "SolutionFound", sol |-> sol])
           /\ callbacks' = Append(callbacks, ObjectiveValue(sol))
           /\ obtained' = Append(obtained, [lb |-> ObjectiveValue(sol), from |-> "local"])
    /\ pc' = "solved"
    /\ UNCHANGED <<signals, best, conflict, result, recorded, unpropagated>>

\* minimize_with: the solution improves on the best one; the brancher is told, the
\* solution is saved and the solver goes back to the root.
RecordImprovement ==
    /\ SearchStep("solved")
    /\ LET lb == ObjectiveValue(cur.sol)
       IN  /\ IsImprovement(best, lb)
           /\ best' = [some |-> TRUE, lb |-> lb, sol |-> cur.sol]
           /\ recorded' = Append(recorded, [lb |-> lb, from |->
                                 IF cur.kind = "AtSolution" THEN "local" ELSE "external"])
           /\ solver' \in SolverReset(
                  [solver EXCEPT !.brancher = BrSetDefaultValuesFrom(@, solver.model, cur.sol),
                                 !.stats.num_restarts = @ + 1])
    /\ pc' = "tighten"
    /\ UNCHANGED <<signals, output, cur, conflict, result, callbacks, obtained, unpropagated>>

\* minimize_with: the clause asking for a better objective value is added.
Tighten ==
    /\ SearchStep("tighten")
    /\ solver' = [solver EXCEPT !.sat = SatAddClause(@, TighteningClause(best.lb))]
    /\ pc' = "poll"
    /\ UNCHANGED <<signals, output, best, cur, conflict, result, callbacks, recorded,
                   obtained, unpropagated>>

SkipNonImproving_OrExternal ==
    /\ SearchStep("solved")
    /\ \/ ~IsImprovement(best, ObjectiveValue(cur.sol))
       \/ cur.kind = "ExternalSolution"
    /\ pc' = "poll"
    /\ UNCHANGED <<solver, signals, output, best, cur, conflict, result, callbacks,
                   recorded, obtained, unpropagated>>

\* minimize_with: the solution does not improve on the best one; search again.
SkipNonImproving ==
    /\ SearchStep("solved")
    /\ ~IsImprovement(best, ObjectiveValue(cur.sol))
    /\ pc' = "poll"
    /\ UNCHANGED <<solver, signals, output, best, cur, conflict, result, callbacks,
                   recorded, obtained, unpropagated>>

SolverNext ==
    \/ PollInterrupted \/ PollContinue \/ PollExternalSolution \/ PollEmpty
    \/ PropagateOk \/ PropagateConflict \/ LearnAndBacktrack \/ ReturnUnsat
    \/ Decide \/ DoRestart \/ AtSolution
    \/ RecordImprovement \/ Tighten \/ SkipNonImproving

Init == InitCommon(BOOLEAN, AllowedConflictsChoices) /\ pc = "poll" /\ cdcl = Off /\ br = Off /\ mdl = Off /\ lcp = Off /\ bnd = Off /\ vld = Off
Next == Deliver \/ SolverNext
Spec == Init /\ [][Next]_vars
\* The worker's thread runs whenever it can take a step.
FairSpec == Spec /\ WF_vars(SolverNext)

\* The SMT solver at rest, while another program of the repository runs.
SmtOff ==
    /\ InitCommon({TRUE}, {DefaultAllowedConflicts})
    /\ problem = CHOOSE p \in Problems : TRUE
    /\ pc = "off"
smtVars == <<solver, searchVars, apiVars>>

\* ------------------------------------------------------------------ properties
\* The solutions of a sequence that are strictly better than all before them.
RECURSIVE Improving(_, _)
Improving(q, b) ==
    IF q = <<>> THEN <<>>
    ELSE IF IsImprovement(b, Head(q).lb)
         THEN <<Head(q)>> \o Improving(Tail(q), [some |-> TRUE, lb |-> Head(q).lb])
         ELSE Improving(Tail(q), b)

\* The solutions minimize_with has finished processing.
Processed == IF pc = "solved" THEN SubSeq(obtained, 1, Len(obtained) - 1) ELSE obtained

LocalValues(q) ==
    LET F[i \in 0..Len(q)] ==
            IF i = 0 THEN <<>>
            ELSE IF q[i].from = "local" THEN Append(F[i - 1], q[i].lb) ELSE F[i - 1]
    IN  F[Len(q)]

Broadcasts ==
    LET F[i \in 0..Len(output)] ==
            IF i = 0 THEN <<>>
            ELSE IF output[i].kind = "SolutionFound"
                 THEN Append(F[i - 1], ObjectiveValue(output[i].sol))
                 ELSE F[i - 1]
    IN  F[Len(output)]

\* C1: the objective values recorded as the best solution and handed to
\* brancher.new_assignment_found are strictly decreasing, whatever the interleaving
\* of local and external solutions; the last one is the value of best.
C1_RecordedStrictlyDecreasing ==
    /\ \A i \in 1..(Len(recorded) - 1) : recorded[i + 1].lb < recorded[i].lb
    /\ recorded # <<>> => (best.some /\ best.lb = recorded[Len(recorded)].lb)

C1_Witness ==
    /\ Len(recorded) >= 2
    /\ \E i \in 1..Len(recorded) : recorded[i].from = "external"
    /\ \E i \in 1..Len(recorded) : recorded[i].from = "local"

\* C2: when minimize_with returns Ok, it returns None exactly when no solution,
\* local or external, was obtained; otherwise it returns the smallest objective
\* value among the solutions obtained, with an assignment that has this value.
C2_ReturnsBestObtained ==
    (pc = "done" /\ result.kind = "Ok") =>
        /\ result.best.some <=> obtained # <<>>
        /\ result.best.some =>
              /\ \E i \in 1..Len(obtained) : obtained[i].lb = result.best.lb
              /\ \A i \in 1..Len(obtained) : result.best.lb <= obtained[i].lb
              /\ ObjectiveValue(result.best.sol) = result.best.lb

C2_Witness ==
    /\ pc = "done"
    /\ result.kind = "Ok"
    /\ result.best.some
    /\ \E i \in 1..Len(obtained) :
          obtained[i].from = "external" /\ obtained[i].lb > result.best.lb
    /\ \E i \in 1..Len(obtained) : obtained[i].from = "local"

\* C3: when an improving solution of value v has been recorded, the clause
\* (objective <= v-1) is added with the solver and all its components at the root
\* level, it is in the SAT engine when the next search starts, and every solution
\* the solver's own search finds afterwards has a value of at most v-1.
C3_TightenAtRootThenBetter ==
    /\ pc = "tighten" =>
          /\ solver.decision_level = 0
          /\ ComponentDepths(solver) = {0}
          /\ {Leq(ObjVar, best.lb - 1)} \notin solver.sat.clauses
    /\ (pc \in {"poll", "propagate", "decide", "conflict"} /\ best.some) =>
          {Leq(ObjVar, best.lb - 1)} \in solver.sat.clauses
    /\ (pc = "solved" /\ cur.kind = "AtSolution" /\ best.some) =>
          ObjectiveValue(cur.sol) <= best.lb - 1

C3_Witness ==
    /\ pc = "solved"
    /\ cur.kind = "AtSolution"
    /\ best.some
    /\ solver.decision_level > 0

\* C4: every solution _solve returns, found by the search or received from another
\* worker, has invoked on_new_solution and has been sent to the other workers.
C4_ExternalTreatedAsLocal ==
    /\ Len(callbacks) = Len(obtained)
    /\ Len(Broadcasts) = Len(obtained)

\* C4 (amended): an external solution is processed as a local one of the same
\* value as far as the best solution, the tightening clause and the restart go:
\* the solutions recorded are the strictly improving ones among all solutions
\* processed, whatever their origin, each followed by its clause; but
\* on_new_solution is called and the solution is sent to the other workers only
\* for the solutions of the solver's own search.
C4_SameUpdateLocalNotification ==
    /\ recorded = Improving(Processed, NoBest)
    /\ pc \in {"poll", "propagate", "decide", "conflict", "done"} =>
          \A i \in 1..Len(recorded) : {Leq(ObjVar, recorded[i].lb - 1)} \in solver.sat.clauses
    /\ solver.stats.num_restarts >= Len(recorded)
    /\ callbacks = LocalValues(obtained)
    /\ Broadcasts = LocalValues(obtained)

C4_Witness ==
    /\ Len(recorded) >= 2
    /\ recorded[1].from = "external"
    /\ recorded[2].from = "local"
    /\ Len(callbacks) = 1
    /\ pc = "poll"

\* C5: minimize_with returns, and it records at most ub - lb + 1 improving
\* solutions, for the objective's initial domain [0, ObjUb].
C5_Terminates ==
    /\ <>(pc = "done")
    /\ [](Len(recorded) <= ObjUb + 1)

C5_Witness ==
    /\ pc = "done"
    /\ result.kind = "Ok"
    /\ Len(recorded) = ObjUb + 1

\* C6: when Interrupt is the next message of the channel at the poll, the solver
\* takes no other step than returning Err(Interrupted): no propagation, no
\* decision, no restart, no other message consumed.
C6_InterruptStops ==
    [][(pc = "poll" /\ signals # <<>> /\ Head(signals).kind = "Interrupt") =>
          /\ solver' = solver
          /\ pc' \in {"poll", "done"}
          /\ pc' = "done" => result' = ErrInterrupted
          /\ pc' = "poll" => (signals' # <<>> /\ Head(signals') = Head(signals))]_vars

C6_Witness ==
    /\ pc = "done"
    /\ result = ErrInterrupted
    /\ solver.decision_level > 0
    /\ best.some

\* C37: when minimize_with reads Interrupt from the channel after it recorded
\* a solution, it returns Err(Exit::Interrupted): the result carries no
\* solution, the best one found is not given to the caller.
C37_InterruptDiscardsBest ==
    [][(/\ pc = "poll" /\ signals # <<>> /\ Head(signals).kind = "Interrupt"
        /\ signals' = Tail(signals)
        /\ best.some /\ recorded # <<>>) =>
          /\ pc' = "done"
          /\ result'.kind = "Err" /\ result'.exit = "Interrupted"
          /\ "best" \notin DOMAIN result'
          /\ result' # OkResult(best)]_vars

\* Interrupted after two solutions were recorded.
C37_Witness ==
    /\ pc = "done"
    /\ result = ErrInterrupted
    /\ Len(recorded) >= 2
    /\ best.some

\* C7: a message is consumed only after the propagation of the iteration and
\* before its decision.
C7_ConsumedBetweenPropagateAndDecide ==
    [][Len(signals') < Len(signals) => pc = "decide"]_vars

\* C7 (amended): messages are consumed only at the top of an iteration, before
\* its propagation, so that a propagation completes between the consumption of a
\* message and the next decision; none is consumed while
\* propagate_and_backtrack_to_consistent runs.
C7_ConsumedAtLoopTop ==
    [][/\ Len(signals') < Len(signals) => pc = "poll"
       /\ solver'.stats.num_decisions > solver.stats.num_decisions => ~unpropagated]_vars

C7_Witness ==
    /\ pc = "conflict"
    /\ signals # <<>>
    /\ solver.decision_level > 0

\* The domains obtained by applying the operations of h, in order, to d.
RECURSIVE Replay(_, _, _)
Replay(h, d, cls) ==
    IF h = <<>> THEN d
    ELSE LET o == Head(h)
             d1 == IF o.op = "save" THEN DomSaveState(d)
                   ELSE IF o.op = "set" THEN DomSet(d, o.lit, "decision").d
                   ELSE SatPropagate(d, cls).d
         IN  Replay(Tail(h), d1, cls)

\* C8: after every save_state (also the one decide makes) and every restore(L),
\* L not above the current depth, that returns, the model, the brancher, the SAT
\* engine and every theory report the same number of saved levels, which is
\* decision_level: one more than before for save_state.
C8_DepthsAgree ==
    (lastOp \in {"save_state", "decide", "restore"} /\ ~solver.panicked) =>
        /\ ComponentDepths(solver) = {solver.decision_level}
        /\ lastOp \in {"save_state", "decide"} => solver.decision_level = preLevel + 1

C8_Witness ==
    /\ lastOp = "restore"
    /\ ~solver.panicked
    /\ preLevel = 3
    /\ solver.decision_level = 1
    /\ Len(solver.model.trail) > 0

\* C9: restore_last called at decision level n > 0 returns with decision_level
\* and the depth of every component equal to n - 1.
C9_RestoreLastUndoesOneLevel ==
    (lastOp = "restore_last" /\ DecLvlGt(preLevel, 0)) =>
        /\ ~solver.panicked
        /\ solver.decision_level = preLevel - 1
        /\ ComponentDepths(solver) = {preLevel - 1}

\* C10: at every point of a run of decide, propagate and restore operations, at
\* level L, the bounds of every variable are those obtained from the root state by
\* replaying the operations of the first L levels only.
C10_BoundsEqualReplay ==
    ~solver.panicked =>
        LET r == Replay(hist, NewDomains, solver.sat.clauses)
        IN  /\ solver.model.lb = r.lb
            /\ solver.model.ub = r.ub
            /\ DomNumSaved(solver.model) = NumSaves(hist)

C10_Witness ==
    /\ lastOp = "restore"
    /\ ~solver.panicked
    /\ preLevel = 2
    /\ DomNumSaved(solver.model) = 1
    /\ Len(solver.model.trail) >= 2
    /\ \E i \in 1..Len(solver.model.trail) : solver.model.trail[i].cause = "inference"

\* =========================================================================
\* The boolean CDCL solver of src/src/main.rs
\* =========================================================================
\* A literal is a non-zero integer: v is the positive literal of variable v and
\* -v its negative literal. Clause ids are positions of the clause database,
\* 0 standing for the absence of a clause (Option::None).
Variable(l) == IF l < 0 THEN -l ELSE l
GROUND_LEVEL == 0

\* SearchParams::default().init_nof_conflict
InitNofConflict == 100

\* The clause lists given to Solver::init.
InputCnfs ==
    { << <<-1, -2, 3>>, <<-1, -2, -3>>, <<1, 2>> >>,
      << <<1, 2>>, <<1, -2>>, <<-1, 3>>, <<-1, -3>> >>,
      << <<-1, -3, 4>>, <<-1, -3, -4>>, <<-2, 3, 4>> >>,
      << <<-1>>, <<1, 2>>, <<-2, 3>> >>,
      << <<>>, <<1, 2>> >>,
      << <<1, 1>>, <<-1, 2, -1>>, <<2, -2>> >>,
      << <<-1, 2>>, <<-2, 3>>, <<-3, -4, 5>>, <<-5, -3, -2>> >>,
      << <<1, 2, 3>>, <<-1, -2>>, <<-1, -3>>, <<-2, -3>>, <<1, -2, 3>>, <<2>> >>,
      << <<-1, -2, 3>>, <<-1, -2, -3>>, <<-1, -2, 4>>, <<1, 2>>,
         <<-4, 5>>, <<-4, -5>>, <<-4, 3>> >> }

MaxOf(S) == CHOOSE m \in S : \A n \in S : n <= m
MinOf(S) == CHOOSE m \in S : \A n \in S : m <= n
Swap(q, i, j) == [q EXCEPT ![i] = q[j], ![j] = q[i]]

\* Assignments: the trail of (literal, reason, level) and the decision level.
AssignIndex(s, v) ==
    LET hits == {i \in 1..Len(s.trail) : Variable(s.trail[i].lit) = v}
    IN  IF hits = {} THEN 0 ELSE MinOf(hits)
AssignIsSet(s, v) == AssignIndex(s, v) # 0
AssignLevel(s, v) == IF AssignIsSet(s, v) THEN s.trail[AssignIndex(s, v)].lvl ELSE -1
AssignReason(s, v) == IF AssignIsSet(s, v) THEN s.trail[AssignIndex(s, v)].reason ELSE 0
AssignSet(s, lit, reason) ==
    [s EXCEPT !.trail = Append(@, [lit |-> lit, reason |-> reason, lvl |-> s.dl])]
AddBacktrackPoint(s) == [s EXCEPT !.dl = @ + 1]
\* Assignments::last_assignment(i): the i-th assignment from the end of the trail.
LastAssignment(s, i) == s.trail[Len(s.trail) - i].lit
NumAssigned(s) == Len(s.trail)

\* Solver::backtrack_to: the assignments above lvl are undone and their variables
\* given back to the heuristic (var_insert).
CdclBacktrackTo(s, lvl) ==
    LET keep == {i \in 1..Len(s.trail) : s.trail[i].lvl <= lvl}
        n == Cardinality(keep)
        undone == {Variable(s.trail[i].lit) : i \in (1..Len(s.trail)) \ keep}
    IN  [s EXCEPT !.trail = SubSeq(@, 1, n),
                  !.dl = IF @ > lvl THEN lvl ELSE @,
                  !.heap = @ \cup undone]

\* Solver::is_set
CdclIsSet(s, lit) ==
    \E i \in 1..Len(s.trail) : s.trail[i].lit = lit

CdclEnqueue_NoContradiction(s, lit, reason) ==
    IF CdclIsSet(s, lit) \/ CdclIsSet(s, -lit) THEN [s |-> s, ok |-> TRUE]
    ELSE [s |-> [AssignSet(s, lit, reason) EXCEPT !.propagation_queue = Append(@, lit)],
          ok |-> TRUE]

\* Solver::enqueue: [s, ok].
CdclEnqueue(s, lit, reason) ==
    IF CdclIsSet(s, -lit) THEN [s |-> s, ok |-> FALSE]
    ELSE IF CdclIsSet(s, lit) THEN [s |-> s, ok |-> TRUE]
    ELSE [s |-> [AssignSet(s, lit, reason) EXCEPT !.propagation_queue = Append(@, lit)],
          ok |-> TRUE]

\* Solver::add_clause: [s, res, lit, id].
CdclAddClause(s, lits, learnt) ==
    IF Len(lits) = 0 THEN [s |-> s, res |-> "Inconsistent", lit |-> 0, id |-> 0]
    ELSE IF Len(lits) = 1 THEN [s |-> s, res |-> "Unit", lit |-> lits[1], id |-> 0]
    ELSE LET lvl(i) == AssignLevel(s, Variable(lits[i]))
             \* the first position, from 1 on, holding the highest level
             max_i == MinOf({i \in 2..Len(lits) : \A j \in 2..Len(lits) : lvl(j) <= lvl(i)})
             disjuncts == IF learnt THEN Swap(lits, 2, max_i) ELSE lits
             cl_id == Len(s.clauses) + 1
             w1 == [s.watches EXCEPT ![-disjuncts[1]] = Append(@, cl_id)]
             w2 == [w1 EXCEPT ![-disjuncts[2]] = Append(@, cl_id)]
         IN  [s |-> [s EXCEPT !.clauses = Append(@, [disjuncts |-> disjuncts, learnt |-> learnt]),
                              !.watches = w2,
                              !.debug_failed = @ \/ (learnt /\ \E i \in 2..Len(lits) :
                                                        ~AssignIsSet(s, Variable(lits[i])))],
              res |-> "Complete", lit |-> 0, id |-> cl_id]

CdclPropagateClause_AnyReplacement(s, clause_id, p) ==
    LET d0 == s.clauses[clause_id].disjuncts
        d1 == IF d0[1] = -p THEN Swap(d0, 1, 2) ELSE d0
        s1 == [s EXCEPT !.clauses[clause_id].disjuncts = d1,
                        !.debug_failed = @ \/ d1[2] # -p]
        cand == 3..Len(d1)
    IN  IF CdclIsSet(s, d1[1])
        THEN [s |-> [s1 EXCEPT !.watches[p] = Append(@, clause_id)], ok |-> TRUE]
        ELSE IF cand # {}
        THEN LET d2 == Swap(d1, 2, MinOf(cand))
             IN  [s |-> [s1 EXCEPT !.clauses[clause_id].disjuncts = d2,
                                   !.watches[-d2[2]] = Append(@, clause_id)],
                  ok |-> TRUE]
        ELSE CdclEnqueue([s1 EXCEPT !.watches[p] = Append(@, clause_id)], d1[1], clause_id)

\* Solver::propagate_clause: [s, ok].
CdclPropagateClause(s, clause_id, p) ==
    LET d0 == s.clauses[clause_id].disjuncts
        d1 == IF d0[1] = -p THEN Swap(d0, 1, 2) ELSE d0
        s1 == [s EXCEPT !.clauses[clause_id].disjuncts = d1,
                        !.debug_failed = @ \/ d1[2] # -p]
        cand == {i \in 3..Len(d1) : ~CdclIsSet(s, -d1[i])}
    IN  IF CdclIsSet(s, d1[1])
        THEN [s |-> [s1 EXCEPT !.watches[p] = Append(@, clause_id)], ok |-> TRUE]
        ELSE IF cand # {}
        THEN LET d2 == Swap(d1, 2, MinOf(cand))
             IN  [s |-> [s1 EXCEPT !.clauses[clause_id].disjuncts = d2,
                                   !.watches[-d2[2]] = Append(@, clause_id)],
                  ok |-> TRUE]
        ELSE CdclEnqueue([s1 EXCEPT !.watches[p] = Append(@, clause_id)], d1[1], clause_id)

RECURSIVE CdclPropagateTodo_RestDropped(_, _, _, _)
CdclPropagateTodo_RestDropped(s, todo, i, p) ==
    IF i > Len(todo) THEN [s |-> s, conflict |-> 0, calls |-> <<>>]
    ELSE LET r == CdclPropagateClause(s, todo[i], p)
             call == [s |-> s, clause |-> todo[i], p |-> p]
         IN  IF ~r.ok
             THEN [s |-> [r.s EXCEPT !.propagation_queue = <<>>],
                   conflict |-> todo[i],
                   calls |-> <<call>>]
             ELSE LET rest == CHOOSE x \in {CdclPropagateTodo_RestDropped(s1, todo, i + 1, p) :
                                               s1 \in {r.s}} : TRUE
                  IN  [rest EXCEPT !.calls = <<call>> \o @]

\* Solver::propagate, the loop over the clauses watching p: [s, conflict, calls],
\* calls listing the calls of propagate_clause it made, each with the solver it
\* was made on.
RECURSIVE CdclPropagateTodo(_, _, _, _)
CdclPropagateTodo(s, todo, i, p) ==
    IF i > Len(todo) THEN [s |-> s, conflict |-> 0, calls |-> <<>>]
    ELSE LET r == CdclPropagateClause(s, todo[i], p)
             call == [s |-> s, clause |-> todo[i], p |-> p]
         IN  IF ~r.ok
             THEN [s |-> [r.s EXCEPT !.watches[p] = @ \o SubSeq(todo, i + 1, Len(todo)),
                                     !.propagation_queue = <<>>],
                   conflict |-> todo[i],
                   calls |-> <<call>>]
             ELSE LET rest == CHOOSE x \in {CdclPropagateTodo(s1, todo, i + 1, p) :
                                               s1 \in {r.s}} : TRUE
                  IN  [rest EXCEPT !.calls = <<call>> \o @]

\* Solver::propagate: [s, conflict, calls], conflict being the id of the violated
\* clause or 0.
RECURSIVE CdclPropagate(_)
CdclPropagate(s) ==
    IF s.propagation_queue = <<>> THEN [s |-> s, conflict |-> 0, calls |-> <<>>]
    ELSE LET n == Len(s.propagation_queue)
             p == s.propagation_queue[n]
             s1 == [s EXCEPT !.propagation_queue = SubSeq(@, 1, n - 1),
                             !.watches[p] = <<>>]
             r == CdclPropagateTodo(s1, s.watches[p], 1, p)
         IN  IF r.conflict # 0 THEN r
             ELSE LET rest == CHOOSE x \in {CdclPropagate(s2) : s2 \in {r.s}} : TRUE
                  IN  [rest EXCEPT !.calls = r.calls \o @]

\* Solver::calc_reason: the negated literals of the clause, the first one left
\* out when the clause is the reason of p (p = 0 for the conflicting clause).
CdclCalcReason(s, clause, p) ==
    LET d == s.clauses[clause].disjuncts
        first == IF p # 0 THEN 2 ELSE 1
    IN  [i \in 1..(Len(d) - first + 1) |-> -d[i + first - 1]]

RECURSIVE CdclAnalyzeReason_LevelIgnored(_, _, _, _)
CdclAnalyzeReason_LevelIgnored(s, a, p_reason, i) ==
    IF i > Len(p_reason) THEN a
    ELSE LET q == p_reason[i]
             qvar == Variable(q)
             a1 == IF qvar \in a.seen THEN a
                   ELSE IF AssignLevel(s, qvar) = s.dl /\ a.counter = 0
                        THEN [a EXCEPT !.seen = @ \cup {qvar}, !.counter = @ + 1]
                   ELSE [a EXCEPT !.seen = @ \cup {qvar},
                                  !.out_learnt = Append(@, -q),
                                  !.out_btlevel = MaxOf({@, AssignLevel(s, qvar)})]
         IN  CHOOSE x \in {CdclAnalyzeReason_LevelIgnored(s, a2, p_reason, i + 1) :
                              a2 \in {a1}} : TRUE

\* Solver::analyze, the loop over the literals of one reason; a holds seen,
\* counter, out_learnt (without its first position) and out_btlevel.
RECURSIVE CdclAnalyzeReason(_, _, _, _)
CdclAnalyzeReason(s, a, p_reason, i) ==
    IF i > Len(p_reason) THEN a
    ELSE LET q == p_reason[i]
             qvar == Variable(q)
             a1 == IF qvar \in a.seen THEN a
                   ELSE IF AssignLevel(s, qvar) = s.dl
                        THEN [a EXCEPT !.seen = @ \cup {qvar}, !.counter = @ + 1]
                   ELSE IF AssignLevel(s, qvar) > GROUND_LEVEL
                        THEN [a EXCEPT !.seen = @ \cup {qvar},
                                       !.out_learnt = Append(@, -q),
                                       !.out_btlevel = MaxOf({@, AssignLevel(s, qvar)})]
                   ELSE [a EXCEPT !.seen = @ \cup {qvar}]
         IN  CHOOSE x \in {CdclAnalyzeReason(s, a2, p_reason, i + 1) : a2 \in {a1}} : TRUE

\* Solver::analyze, one round of the outer loop and the following ones:
\* [learnt, btlevel, panic]. It aborts when the clause to resolve with is None or
\* when the trail holds no seen assignment any more.
RECURSIVE CdclAnalyzeLoop(_, _, _, _, _)
CdclAnalyzeLoop(s, a, p, clause, simulated_undone) ==
    IF clause = 0 THEN [learnt |-> <<>>, btlevel |-> 0, panic |-> TRUE]
    ELSE LET a1 == CdclAnalyzeReason(s, a, CdclCalcReason(s, clause, p), 1)
             ks == {k \in simulated_undone..(Len(s.trail) - 1) :
                       Variable(LastAssignment(s, k)) \in a1.seen}
         IN  IF ks = {} THEN [learnt |-> <<>>, btlevel |-> 0, panic |-> TRUE]
             ELSE LET k == MinOf(ks)
                      l == LastAssignment(s, k)
                      a2 == [a1 EXCEPT !.counter = @ - 1]
                  IN  IF a2.counter > 0
                      THEN CHOOSE x \in {CdclAnalyzeLoop(s, a3, l, AssignReason(s, Variable(l)), k + 1) :
                                            a3 \in {a2}} : TRUE
                      ELSE [learnt |-> <<-l>> \o a2.out_learnt,
                            btlevel |-> a2.out_btlevel, panic |-> FALSE]

\* Solver::analyze
CdclAnalyze(s, original_clause) ==
    CdclAnalyzeLoop(s, [seen |-> {}, counter |-> 0, out_learnt |-> <<>>,
                        out_btlevel |-> GROUND_LEVEL],
                    0, original_clause, 0)

\* Solver::init
RECURSIVE CdclAddAll(_, _, _)
CdclAddAll(s, clauses, i) ==
    IF i > Len(clauses) THEN s
    ELSE CHOOSE x \in {CdclAddAll(s1, clauses, i + 1) :
                          s1 \in {CdclAddClause(s, clauses[i], FALSE).s}} : TRUE

CdclInit(clauses) ==
    LET biggest_var == MaxOf({0} \cup UNION {{Variable(clauses[i][j]) : j \in 1..Len(clauses[i])} :
                                                i \in 1..Len(clauses)})
        solver0 == [num_vars |-> biggest_var,
                    trail |-> <<>>,
                    dl |-> GROUND_LEVEL,
                    clauses |-> <<>>,
                    watches |-> [l \in ((-biggest_var)..biggest_var) \ {0} |-> <<>>],
                    propagation_queue |-> <<>>,
                    heap |-> 1..biggest_var,
                    debug_failed |-> FALSE]
    IN  CdclAddAll(solver0, clauses, 1)

\* Solver::decide(Decision::True(v))
CdclDecide(s, v) ==
    [AssignSet(AddBacktrackPoint(s), v, 0) EXCEPT !.propagation_queue = Append(@, v)]

\* solve: the conflict budget of the search after r restarts, 100 * 1.5^r as usize.
RECURSIVE Pow(_, _)
Pow(b, e) == IF e = 0 THEN 1 ELSE b * Pow(b, e - 1)
NofConflicts(r) == (InitNofConflict * Pow(3, r)) \div Pow(2, r)

\* ---------------------------------------------------------- solve and search
\* cdcl holds the Solver (field s), the clauses it was given, the control point
\* of search, the conflicting clause, conflict_count, the number of restarts, the
\* value solve returned, and the last clause analyze produced with the levels
\* its literals had when it was produced.
NoLearnt == [clause |-> <<>>, levels |-> <<>>, at |-> 0]

cdclOthers == <<br, mdl, lcp, bnd, vld>>
InitCdcl ==
    /\ SmtOff
    /\ br = Off /\ mdl = Off /\ lcp = Off /\ bnd = Off /\ vld = Off
    /\ \E input \in InputCnfs :
          cdcl = [pc |-> "propagate", input |-> input, s |-> CdclInit(input),
                  conflict |-> 0, conflict_count |-> 0, restarts |-> 0,
                  result |-> "running", learnt |-> NoLearnt, num_learnt |-> 0]

CdclStep(at) ==
    /\ cdcl.pc = at
    /\ UNCHANGED <<smtVars, cdclOthers>>

\* search: propagate is called at the top of the loop.
CdclSearchPropagate ==
    /\ CdclStep("propagate")
    /\ LET r == CdclPropagate(cdcl.s)
       IN  cdcl' = [cdcl EXCEPT !.s = r.s,
                                !.conflict = r.conflict,
                                !.conflict_count = IF r.conflict # 0 THEN @ + 1 ELSE @,
                                !.pc = IF r.conflict # 0 THEN "conflict" ELSE "quiet"]

\* search: a conflict at the root level; search and solve return false.
CdclConflictAtRoot ==
    /\ CdclStep("conflict")
    /\ cdcl.s.dl = GROUND_LEVEL
    /\ cdcl' = [cdcl EXCEPT !.pc = "done", !.result = "false"]

\* search: a conflict above the root level is analyzed, the solver backtracks,
\* the learnt clause is added and its first literal enqueued.
CdclLearn ==
    /\ CdclStep("conflict")
    /\ cdcl.s.dl # GROUND_LEVEL
    /\ LET an == CdclAnalyze(cdcl.s, cdcl.conflict)
           s1 == CdclBacktrackTo(cdcl.s, an.btlevel)
           added == CdclAddClause(s1, an.learnt, TRUE)
           s2 == IF added.res = "Unit" THEN CdclEnqueue(added.s, added.lit, 0).s
                 ELSE CdclEnqueue(added.s, an.learnt[1], added.id).s
           analyzed == [cdcl EXCEPT
                          !.num_learnt = @ + 1,
                          !.learnt = [clause |-> an.learnt,
                                      levels |-> [i \in 1..Len(an.learnt) |->
                                                     AssignLevel(cdcl.s, Variable(an.learnt[i]))],
                                      at |-> cdcl.s.dl]]
       IN  IF an.panic THEN cdcl' = [cdcl EXCEPT !.pc = "panic"]
           ELSE IF cdcl.s.dl <= an.btlevel \/ added.res = "Inconsistent"
           THEN cdcl' = [analyzed EXCEPT !.s = added.s, !.pc = "done", !.result = "false"]
           ELSE cdcl' = [analyzed EXCEPT !.s = s2, !.pc = "propagate"]

\* search: propagation ended without conflict and every variable is assigned.
CdclModelFound ==
    /\ CdclStep("quiet")
    /\ cdcl.s.num_vars = NumAssigned(cdcl.s)
    /\ cdcl' = [cdcl EXCEPT !.pc = "done", !.result = "true"]

\* search: propagation ended without conflict and a variable is unassigned: when
\* the conflict budget is spent, search backtracks to the root and solve calls it
\* again with a budget one and a half times as large; otherwise the next unset
\* variable of the heuristic is decided true, the set variables popped before it
\* being dropped from the heap.
CdclNextDecision ==
    /\ CdclStep("quiet")
    /\ cdcl.s.num_vars # NumAssigned(cdcl.s)
    /\ IF cdcl.conflict_count > NofConflicts(cdcl.restarts)
       THEN cdcl' = [cdcl EXCEPT !.s = CdclBacktrackTo(@, GROUND_LEVEL),
                                 !.conflict_count = 0,
                                 !.restarts = @ + 1,
                                 !.pc = "propagate"]
       ELSE LET unset == {v \in cdcl.s.heap : ~AssignIsSet(cdcl.s, v)}
                set == cdcl.s.heap \ unset
            IN  IF unset = {} THEN cdcl' = [cdcl EXCEPT !.pc = "panic"]
                ELSE \E v \in unset, P \in SUBSET set :
                        cdcl' = [cdcl EXCEPT
                                   !.s = CdclDecide([@ EXCEPT !.heap = @ \ (P \cup {v})], v),
                                   !.pc = "propagate"]

NextCdcl ==
    \/ CdclSearchPropagate \/ CdclConflictAtRoot \/ CdclLearn
    \/ CdclModelFound \/ CdclNextDecision
SpecCdcl == InitCdcl /\ [][NextCdcl]_vars

\* ---------------------------------------------------------- properties (CDCL)
CdclValue(s, lit) ==
    IF CdclIsSet(s, lit) THEN "true" ELSE IF CdclIsSet(s, -lit) THEN "false" ELSE "undef"

\* No debug assertion of the solver fails and no call aborts.
CdclNoAssertionFails == cdcl.pc # "off" => (~cdcl.s.debug_failed /\ cdcl.pc # "panic")

\* C11: a clause learnt by analyze at decision level L > 0 has exactly one literal
\* assigned at level L, its first one, which is the negation of an assigned
\* literal; every other literal was assigned at a level above the ground level
\* and below L; the clause stored in the database keeps that literal first.
C11_OneLiteralAtConflictLevel ==
    (cdcl.pc # "off" /\ cdcl.num_learnt > 0) =>
        LET c == cdcl.learnt
        IN  /\ c.at > GROUND_LEVEL
            /\ Len(c.clause) >= 1
            /\ c.levels[1] = c.at
            /\ \A i \in 2..Len(c.clause) :
                  c.levels[i] > GROUND_LEVEL /\ c.levels[i] < c.at
            /\ \A i, j \in 1..Len(c.clause) : i # j => Variable(c.clause[i]) # Variable(c.clause[j])
            /\ (cdcl.pc = "propagate" /\ cdcl.conflict # 0 /\ Len(c.clause) >= 2) =>
                  cdcl.s.clauses[Len(cdcl.s.clauses)].disjuncts[1] = c.clause[1]

C11_Witness ==
    /\ cdcl.pc = "propagate"
    /\ cdcl.num_learnt > 0
    /\ Len(cdcl.learnt.clause) >= 2
    /\ cdcl.learnt.at >= 2
    /\ cdcl.s.clauses[Len(cdcl.s.clauses)].learnt

PropagateClauseAsDescribed(s, clause_id, p, r) ==
    LET d0 == s.clauses[clause_id].disjuncts
        d1 == r.s.clauses[clause_id].disjuncts
        other == IF d0[1] = -p THEN d0[2] ELSE d0[1]
        free == {i \in 3..Len(d0) : CdclValue(s, d0[i]) # "false"}
        kept == r.s.watches = [s.watches EXCEPT ![p] = Append(@, clause_id)]
    IN  CASE CdclValue(s, other) = "true" ->
               /\ r.ok /\ kept
               /\ d1 = <<other, -p>> \o SubSeq(d0, 3, Len(d0))
               /\ r.s.trail = s.trail
               /\ r.s.propagation_queue = s.propagation_queue
          [] CdclValue(s, other) # "true" /\ free # {} ->
               LET i == MinOf(free)
               IN  /\ r.ok
                   /\ d1 = [<<other, d0[i]>> \o SubSeq(d0, 3, Len(d0)) EXCEPT ![i] = -p]
                   /\ r.s.watches = [s.watches EXCEPT ![-d0[i]] = Append(@, clause_id)]
                   /\ r.s.trail = s.trail
                   /\ r.s.propagation_queue = s.propagation_queue
          [] CdclValue(s, other) = "undef" /\ free = {} ->
               /\ r.ok /\ kept
               /\ d1 = <<other, -p>> \o SubSeq(d0, 3, Len(d0))
               /\ r.s.trail = Append(s.trail, [lit |-> other, reason |-> clause_id, lvl |-> s.dl])
               /\ r.s.propagation_queue = Append(s.propagation_queue, other)
          [] CdclValue(s, other) = "false" /\ free = {} ->
               /\ ~r.ok /\ kept
               /\ d1 = <<other, -p>> \o SubSeq(d0, 3, Len(d0))
               /\ r.s.trail = s.trail
               /\ r.s.propagation_queue = s.propagation_queue

\* C38: in every call propagate makes for a literal p taken from the propagation
\* queue, the clause, which watches not-p,
\* gets not-p at position 1 and keeps its watch when position 0 is true, else
\* moves the watch to the first non-false literal of positions 2..n, else
\* enqueues position 0 with the clause as reason, or is reported as conflict when
\* position 0 is false. Hence every assignment whose reason is a clause has its
\* literal at position 0 of that clause, all the other literals of the clause
\* being false and assigned before it, and a clause reported as conflict has
\* only false literals.
C38_UnitOrConflict ==
    (cdcl.pc # "off") =>
        /\ (cdcl.pc = "propagate") =>
              LET calls == CdclPropagate(cdcl.s).calls
              IN  \A k \in 1..Len(calls) :
                     PropagateClauseAsDescribed(
                         calls[k].s, calls[k].clause, calls[k].p,
                         CdclPropagateClause(calls[k].s, calls[k].clause, calls[k].p))
        /\ \A i \in 1..Len(cdcl.s.trail) :
              LET e == cdcl.s.trail[i]
              IN  e.reason # 0 =>
                     LET d == cdcl.s.clauses[e.reason].disjuncts
                     IN  /\ d[1] = e.lit
                         /\ \A j \in 2..Len(d) :
                               \E h \in 1..(i - 1) : cdcl.s.trail[h].lit = -d[j]
        /\ (cdcl.pc = "conflict") =>
              \A j \in 1..Len(cdcl.s.clauses[cdcl.conflict].disjuncts) :
                 CdclValue(cdcl.s, cdcl.s.clauses[cdcl.conflict].disjuncts[j]) = "false"

\* A conflict on a clause of three literals while an assignment made by a clause
\* of three literals is on the trail.
C38_Witness ==
    /\ cdcl.pc = "conflict"
    /\ Len(cdcl.s.clauses[cdcl.conflict].disjuncts) >= 3
    /\ \A j \in 1..Len(cdcl.s.clauses[cdcl.conflict].disjuncts) :
          CdclValue(cdcl.s, cdcl.s.clauses[cdcl.conflict].disjuncts[j]) = "false"
    /\ \E i \in 1..Len(cdcl.s.trail) :
          /\ cdcl.s.trail[i].reason # 0
          /\ Len(cdcl.s.clauses[cdcl.s.trail[i].reason].disjuncts) >= 3

\* The number of times the clause is in the watch list of the literal.
WatchCount(s, clause_id, lit) ==
    Cardinality({k \in 1..Len(s.watches[lit]) : s.watches[lit][k] = clause_id})

C40_ModelSatisfiesInput ==
    (cdcl.pc = "done") =>
        /\ (cdcl.result = "true") =>
              \A c \in 1..Len(cdcl.input) :
                 \E j \in 1..Len(cdcl.input[c]) : CdclValue(cdcl.s, cdcl.input[c][j]) = "true"
        /\ (\E c \in 1..Len(cdcl.input) : cdcl.input[c] = <<>>) => cdcl.result = "false"

\* ------------------------------------------------- properties (SMT solver, 2)
\* The conflict at hand is falsified at the root: none of its literals was
\* falsified above the root level (the empty clause is such a conflict).
ConflictAtRoot == \A l \in conflict : LitLevel(solver.model, l) = 0

\* Unit propagation has nothing to add to the domains and violates no clause.
Quiescent(s) ==
    LET p == SatPropagate(s.model, s.sat.clauses)
    IN  p.ok /\ p.d = s.model

\* C13: propagate_and_backtrack_to_consistent returns false exactly when the
\* conflict propagate produced is falsified at the root; any other conflict is
\* learnt, the solver goes back to a lower level where the clause is not
\* violated, and propagation is repeated; true is returned only in a state where
\* propagation has nothing left to do.
C13_UnsatIffConflictAtRoot ==
    [][/\ (pc = "conflict" /\ pc' # pc) =>
             /\ (pc' = "done" /\ result'.kind = "Ok") <=> ConflictAtRoot
             /\ (~ConflictAtRoot /\ ~solver'.panicked) =>
                   /\ pc' = "propagate"
                   /\ conflict \in solver'.sat.clauses
                   /\ DecLvlGt(solver.decision_level, solver'.decision_level)
                   /\ ValueOfClause(solver'.model, conflict) # "false"
       /\ (pc = "propagate" /\ pc' = "decide") => Quiescent(solver')
       /\ (pc = "propagate" /\ pc' # pc) => pc' \in {"decide", "conflict"}]_vars

C13_Witness ==
    /\ pc = "done"
    /\ result.kind = "Ok"
    /\ conflict = {}
    /\ solver.stats.num_conflicts >= 2
    /\ \E i \in 1..Len(output) : output[i].kind = "Learnt" /\ output[i].clause # {}

\* ===================================================== the Brancher on its own
\* The Brancher of src/solver/src/solver/brancher.rs driven the way Solver
\* drives it: next_decision at the current level, then save_state and the
\* decision, or a reset on Restart; conflicts are counted by the caller and undo
\* levels; solutions and callers set preferred values.

\* A value of ARIES_SMT_INITIALLY_ALLOWED_CONFLICT above 2^23: it is also the
\* budget reached from 100 after 29 restarts.
LargeAllowedConflicts == 12729678
\* Initial restart budgets tried.
BrAllowedChoices == {DefaultAllowedConflicts, LargeAllowedConflicts}
\* No conflict is counted after this number of restarts.
MaxBrRestarts == 3
\* Conflicts are counted one by one up to this number since the last restart;
\* beyond it the stretch of search up to the budget is taken in one step.
MaxSingleConflicts == 1

NoRun == [n |-> 0]
BrLevel == Len(br.d.saved)
BrSince == br.stats.num_conflicts - br.b.conflicts_at_last_restart
\* The variable's preferred value, or the absence of one.
Preferred(b, v) == IF v \in DOMAIN b.default_assignment
                   THEN [some |-> TRUE, val |-> b.default_assignment[v]]
                   ELSE [some |-> FALSE]

\* The model the brancher works on: x is free, or was created bound.
BrDomains == {NewDomains, [NewDomains EXCEPT !.lb["x"] = 1]}

InitBr ==
    /\ SmtOff
    /\ cdcl = Off /\ mdl = Off /\ lcp = Off /\ bnd = Off /\ vld = Off
    /\ \E preferMin \in BOOLEAN, allowed \in BrAllowedChoices, d \in BrDomains :
          br = [pc |-> "run", op |-> "new",
                b |-> NewBrancher(preferMin, allowed),
                d |-> d,
                stats |-> [num_conflicts |-> 0],
                dec |-> NoDecision,
                restarts |-> 0,
                run |-> NoRun]

brOthers == <<cdcl, mdl, lcp, bnd, vld>>
BrStep ==
    /\ br.pc = "run"
    /\ UNCHANGED <<smtVars, brOthers>>

\* The caller asks for the next decision.
BrsNextDecision ==
    /\ BrStep
    /\ br.op # "next_decision"
    /\ \E o \in BrNextDecision(br.b, br.stats, br.d) :
          br' = [br EXCEPT !.b = o.b, !.dec = o.dec, !.op = "next_decision"]

\* Solver::decide on the literal returned: save_state, then the decision.
BrsDecide ==
    /\ BrStep
    /\ br.op = "next_decision"
    /\ br.dec.kind = "SetLiteral"
    /\ LET l == br.dec.lit
           res == DomSet(DomSaveState(br.d), l, "decision")
       IN  br' = [br EXCEPT !.b = BrSaveState(br.b),
                            !.d = res.d,
                            !.op = "decide",
                            !.dec = NoDecision,
                            !.run = IF br.run.n > 0 /\ br.run.v = l.v
                                    THEN [@ EXCEPT !.n = @ + 1]
                                    ELSE [n |-> 1, v |-> l.v,
                                          lb |-> br.d.lb[l.v], ub |-> br.d.ub[l.v],
                                          pref |-> Preferred(br.b, l.v)]]

\* _solve on Decision::Restart: reset to the root level.
BrsRestart ==
    /\ BrStep
    /\ br.op = "next_decision"
    /\ br.dec.kind = "Restart"
    /\ br' = [br EXCEPT !.b = BrRestore(br.b, 0),
                        !.d = DomRestore(br.d, 0),
                        !.op = "restart",
                        !.restarts = @ + 1,
                        !.dec = NoDecision,
                        !.run = NoRun]

\* Conflicts: the caller counts them and ends at a lower level.
BrsConflicts ==
    /\ BrStep
    /\ br.op # "next_decision"
    /\ BrLevel > 0
    /\ br.restarts < MaxBrRestarts
    /\ \E n \in {k \in {1} : BrSince < MaxSingleConflicts}
                 \cup {k \in {br.b.allowed_conflicts - BrSince} : k >= 1},
          lvl \in 0..(BrLevel - 1) :
          br' = [br EXCEPT !.stats.num_conflicts = @ + n,
                           !.b = BrRestore(br.b, lvl),
                           !.d = DomRestore(br.d, lvl),
                           !.op = "conflicts",
                           !.dec = NoDecision,
                           !.run = NoRun]

\* Propagation, which follows a decision or a backtrack, tightens a bound.
BrsPropagate ==
    /\ BrStep
    /\ br.op \in {"decide", "conflicts", "restart"}
    /\ \E l \in DecideLits :
          LET res == DomSet(br.d, l, "inference")
          IN  /\ res.res = "modified"
              /\ br' = [br EXCEPT !.d = res.d, !.op = "propagate", !.dec = NoDecision,
                                                                   !.run = NoRun]

\* A solution (every variable bound) becomes the preferred assignment.
BrsSetDefaultValuesFrom ==
    /\ BrStep
    /\ br.op # "next_decision"
    /\ \A v \in Vars : IsBound(br.d, v)
    /\ br' = [br EXCEPT !.b = BrSetDefaultValuesFrom(br.b, br.d,
                                                     [v \in Vars |-> br.d.lb[v]]),
                        !.op = "set_default_values_from",
                        !.dec = NoDecision,
                        !.run = NoRun]

\* A caller sets the preferred value of one variable.
BrsSetDefaultValue ==
    /\ BrStep
    /\ br.op = "new"
    /\ \E v \in Vars, val \in 0..ObjUb :
          /\ val <= InitUb[v]
          /\ br' = [br EXCEPT !.b = BrSetDefaultValue(br.b, v, val),
                              !.op = "set_default_value",
                              !.dec = NoDecision,
                              !.run = NoRun]

NextBr ==
    \/ BrsNextDecision
    \/ BrsDecide
    \/ BrsRestart
    \/ BrsConflicts
    \/ BrsPropagate
    \/ BrsSetDefaultValuesFrom
    \/ BrsSetDefaultValue
SpecBr == InitBr /\ [][NextBr]_vars

\* A step that is a call of next_decision.
NextDecisionCalled == br.pc = "run" /\ br.op # "next_decision" /\ br'.op = "next_decision"
SomeUndecided == \E v \in Vars : ~IsBound(br.d, v)

\* C14 as stated: next_decision returns Restart exactly when a variable is
\* undecided and the conflicts since the last restart reach the budget; the
\* restart records the conflict count and the budget becomes the integer part
\* of 1.5 times the budget.
C14_BudgetTimesOneAndAHalf ==
    [][NextDecisionCalled =>
          /\ (br'.dec.kind = "Restart") <=> (SomeUndecided /\ BrSince >= br.b.allowed_conflicts)
          /\ br'.dec.kind = "Restart" =>
                /\ br'.b.conflicts_at_last_restart = br.stats.num_conflicts
                /\ br'.b.allowed_conflicts = (3 * br.b.allowed_conflicts) \div 2]_vars

\* The budgets below this value are multiplied exactly: 2^23 / 1.5, rounded up.
ExactBelow == 5592406

\* C14, amended: the same, the new budget being the integer part of 1.5 times
\* the budget while the budget is below 5592406; above, the f32 product is
\* rounded and the budget is within the f32 spacing of that value. A budget
\* that is not increased stays unchanged on every other call.
C14_RestartWhenBudgetReached ==
    [][NextDecisionCalled =>
          /\ (br'.dec.kind = "Restart") <=> (SomeUndecided /\ BrSince >= br.b.allowed_conflicts)
          /\ br'.dec.kind = "Restart" =>
                /\ br'.b.conflicts_at_last_restart = br.stats.num_conflicts
                /\ br.b.allowed_conflicts < ExactBelow =>
                      br'.b.allowed_conflicts = (3 * br.b.allowed_conflicts) \div 2
                /\ LET exact == (3 * br.b.allowed_conflicts) \div 2
                       u == Ulp(exact, 1)
                   IN  /\ br'.b.allowed_conflicts >= exact - u
                       /\ br'.b.allowed_conflicts <= exact + u
          /\ br'.dec.kind # "Restart" =>
                /\ br'.b.conflicts_at_last_restart = br.b.conflicts_at_last_restart
                /\ br'.b.allowed_conflicts = br.b.allowed_conflicts]_vars

\* The budgets 100, 150 and 225 have been used and the budget is 337.
C14_Witness ==
    /\ br.pc = "run" /\ br.op = "restart" /\ br.restarts = 3
    /\ br.b.allowed_conflicts = 337
    /\ br.b.conflicts_at_last_restart = 100 + 150 + 225

C16_BoundToPreferredValue ==
    (br.pc = "run" /\ br.run.n >= 1) =>
        /\ br.run.lb < br.run.ub
        /\ br.run.n <= 2
        /\ br.run.n = 2 => IsBound(br.d, br.run.v)
        /\ IsBound(br.d, br.run.v) =>
              br.d.lb[br.run.v] =
                 IF br.run.pref.some /\ br.run.pref.val >= br.run.lb
                                     /\ br.run.pref.val <= br.run.ub
                 THEN br.run.pref.val
                 ELSE IF br.b.prefer_min_value THEN br.run.lb ELSE br.run.ub
        /\ ~IsBound(br.d, br.run.v) =>
              /\ br.run.pref.some
              /\ br.run.pref.val \in {br.d.lb[br.run.v], br.d.ub[br.run.v]}

\* Two decisions were needed: the preferred value is strictly inside the domain.
C16_Witness ==
    /\ br.pc = "run" /\ br.op = "decide" /\ br.run.n = 2
    /\ br.run.pref.some /\ br.run.lb < br.run.pref.val /\ br.run.pref.val < br.run.ub
    /\ br.d.lb[br.run.v] = br.run.pref.val /\ br.d.ub[br.run.v] = br.run.pref.val

\* ============================================================ Model::reify
\* The Model of src/model/src/model.rs: the variables of its state and the
\* Expressions store of its shape, that is the interned expressions with
\* their literal and the queue of bindings.

\* Expressions: an operator and ordered operands; two are equal when they have
\* the same operator and the same operands in the same order.
Exprs == {[op |-> o, args |-> a] : o \in {"or", "and"}, a \in {<<1, 2>>, <<2, 1>>}}
\* Number of calls made on one Model.
MaxModelCalls == 4

\* Lit::TRUE, and BVar::true_lit of variable v
LitTrue == Geq(0, 0)
TrueLit(v) == Geq(v, 1)

\* Model::new: the state holds the variable ZERO only.
NewModel == [num_vars |-> 1, interned |-> [e \in {} |-> LitTrue], bindings |-> <<>>]

\* ModelShape::interned_expr, Expressions::handle_of
InternedExpr(m, e) ==
    IF e \in DOMAIN m.interned THEN [some |-> TRUE, lit |-> m.interned[e]]
    ELSE [some |-> FALSE]

\* Expressions::bind: a new expression is interned with the literal and the
\* binding is queued; an interned one gets the literal as an alias of its own.
ExprBind(m, e, lit) ==
    IF e \in DOMAIN m.interned
    THEN IF m.interned[e] = lit THEN m
         ELSE [m EXCEPT !.bindings = Append(@, [lit |-> lit, target |-> m.interned[e]])]
    ELSE [m EXCEPT !.interned = [x \in DOMAIN @ \cup {e} |-> IF x = e THEN lit ELSE @[x]],
                   !.bindings = Append(@, [lit |-> lit, target |-> e])]

\* Model::new_bvar: the next variable of the state.
ModelNewBvar(m) == [m |-> [m EXCEPT !.num_vars = @ + 1], var |-> m.num_vars]

ModelReify_AlwaysFresh(m, e) ==
    LET nv == ModelNewBvar(m)
    IN  [m |-> ExprBind(nv.m, e, TrueLit(nv.var)), lit |-> TrueLit(nv.var)]

\* Model::reify
ModelReify(m, e) ==
    LET handle == InternedExpr(m, e)
        nv == ModelNewBvar(m)
    IN  IF handle.some THEN [m |-> m, lit |-> handle.lit]
        ELSE [m |-> ExprBind(nv.m, e, TrueLit(nv.var)), lit |-> TrueLit(nv.var)]

\* Model::bind and Model::enforce of an expression
ModelBind(m, e, lit) == ExprBind(m, e, lit)
ModelEnforce(m, e) == ModelBind(m, e, LitTrue)

mdlOthers == <<cdcl, br, lcp, bnd, vld>>
InitMdl ==
    /\ SmtOff
    /\ cdcl = Off /\ br = Off /\ lcp = Off /\ bnd = Off /\ vld = Off
    /\ mdl = [pc |-> "run", m |-> NewModel, calls |-> 0, op |-> "new",
              expr |-> CHOOSE e \in Exprs : TRUE, lit |-> LitTrue,
              first |-> [e \in {} |-> LitTrue]]

MdlStep ==
    /\ mdl.pc = "run"
    /\ mdl.calls < MaxModelCalls
    /\ UNCHANGED <<smtVars, mdlOthers>>

\* reify(expr): first keeps the literal the first call for expr returned.
MdlReify ==
    /\ MdlStep
    /\ \E e \in Exprs :
          LET r == ModelReify(mdl.m, e)
          IN  mdl' = [mdl EXCEPT !.m = r.m, !.calls = @ + 1, !.op = "reify",
                                 !.expr = e, !.lit = r.lit,
                                 !.first = IF e \in DOMAIN @ THEN @
                                           ELSE [x \in DOMAIN @ \cup {e} |->
                                                    IF x = e THEN r.lit ELSE @[x]]]

\* enforce(expr)
MdlEnforce ==
    /\ MdlStep
    /\ \E e \in Exprs :
          mdl' = [mdl EXCEPT !.m = ModelEnforce(mdl.m, e), !.calls = @ + 1,
                             !.op = "enforce", !.expr = e, !.lit = LitTrue]

\* new_bvar, then bind(expr, literal of the variable)
MdlBind ==
    /\ MdlStep
    /\ \E e \in Exprs :
          LET nv == ModelNewBvar(mdl.m)
          IN  mdl' = [mdl EXCEPT !.m = ModelBind(nv.m, e, TrueLit(nv.var)),
                                 !.calls = @ + 1, !.op = "bind", !.expr = e,
                                 !.lit = TrueLit(nv.var)]

NextMdl == MdlReify \/ MdlEnforce \/ MdlBind
SpecMdl == InitMdl /\ [][NextMdl]_vars

\* C17: a call of reify with an expression already interned returns the
\* literal the first call of reify for it returned, which is the interned one,
\* and leaves the variables and the binding queue as they were; a call with a
\* new expression creates exactly one variable, returns its true literal and
\* queues exactly one binding, of that literal to the expression.
C17_ReifyIdempotent ==
    [][(mdl.pc = "run" /\ mdl'.calls = mdl.calls + 1 /\ mdl'.op = "reify") =>
          LET e == mdl'.expr
          IN  /\ e \in DOMAIN mdl.first => mdl'.lit = mdl.first[e]
              /\ e \in DOMAIN mdl.m.interned =>
                    /\ mdl'.lit = mdl.m.interned[e]
                    /\ mdl'.m = mdl.m
              /\ e \notin DOMAIN mdl.m.interned =>
                    /\ mdl'.m.num_vars = mdl.m.num_vars + 1
                    /\ mdl'.lit = TrueLit(mdl.m.num_vars)
                    /\ mdl'.m.bindings = Append(mdl.m.bindings, [lit |-> mdl'.lit, target |-> e])
                    /\ mdl'.m.interned[e] = mdl'.lit
                    /\ \A x \in DOMAIN mdl.m.interned : mdl'.m.interned[x] = mdl.m.interned[x]]_vars

\* An expression was reified, another literal was bound to it, and it was
\* reified again with the literal of the first call.
C17_Witness ==
    /\ mdl.pc = "run" /\ mdl.op = "reify" /\ mdl.calls = 3
    /\ mdl.expr \in DOMAIN mdl.first /\ mdl.lit = mdl.first[mdl.expr]
    /\ mdl.m.num_vars = 3 /\ Len(mdl.m.bindings) = 2
    /\ mdl.m.bindings[2].target = mdl.lit

\* ======================================================= the encoder of lcp
\* src/apps/src/bin/lcp.rs: a finite problem (chronicles with their origin,
\* presence literal, time points, subtasks, conditions and effects) is encoded
\* into a list of constraints, which the solver then satisfies.

ORIGIN == 0
\* The horizon of the time points (HORIZON in the source).
LcpHorizon == 1
\* Largest number of instances of a template, and of refiners of a subtask.
MaxInstances == 3

\* Bound literals on presence variables, Bound::TRUE and negation.
BTrue == [v |-> <<"TRUE">>, pos |-> TRUE]
BLit(v) == [v |-> v, pos |-> TRUE]
BNot(l) == [l EXCEPT !.pos = ~@]
\* Atoms: a variable or a constant of some kind.
AVar(kind, name) == [kind |-> kind, var |-> name, cst |-> 0]
ACst(kind, n) == [kind |-> kind, var |-> <<>>, cst |-> n]

\* The expressions built by the model's factory.
CLit(l) == [op |-> "lit", lit |-> l]
COr(args) == [op |-> "or", args |-> args]
CAnd(args) == [op |-> "and", args |-> args]
CImplies(a, b) == [op |-> "implies", a |-> a, b |-> b]
CLeq(a, b) == [op |-> "leq", a |-> a, b |-> b]
CEq(a, b) == [op |-> "eq", a |-> a, b |-> b]
CNeq(a, b) == [op |-> "neq", a |-> a, b |-> b]
COptEq(a, b) == [op |-> "opt_eq", a |-> a, b |-> b]

\* f[1] \o ... \o f[n]
RECURSIVE ConcatTo(_, _)
ConcatTo(f, n) == IF n = 0 THEN <<>> ELSE ConcatTo(f, n - 1) \o f[n]
ConcatAll(f) == ConcatTo(f, Len(f))

\* ChronicleOrigin
OriginOriginal ==
    [kind |-> "Original", template_id |-> 0, generation_id |-> 0, instance_id |-> 0, task_id |-> 0]
OriginFreeAction(t, g) ==
    [kind |-> "FreeAction", template_id |-> t, generation_id |-> g, instance_id |-> 0, task_id |-> 0]
OriginRefinement(i, t) ==
    [kind |-> "Refinement", template_id |-> 0, generation_id |-> 0, instance_id |-> i, task_id |-> t]

\* populate_with_template_instances: template t is instantiated n[t] times,
\* with generation ids 0 .. n[t] - 1; each instance has its own presence
\* variable in the scope TRUE and its own start.
TemplateInstance(t, g, effects) ==
    [origin |-> OriginFreeAction(t, g),
     presence |-> BLit(<<"p", t, g>>), scope |-> BTrue,
     start |-> AVar("int", <<"s", t, g>>), end |-> AVar("int", <<"s", t, g>>),
     task |-> <<>>, subtasks |-> <<>>, conditions |-> <<>>, effects |-> effects]
PopulateWithTemplateInstances(n) ==
    ConcatAll([t \in 1..Len(n) |-> [g \in 1..n[t] |-> TemplateInstance(t - 1, g - 1, <<>>)]])

\* A task network: the first chronicle has one subtask per entry of ks and the
\* subtask j has ks[j] refiners, whose presence is in the scope of the first
\* chronicle's.
HtnRoot(ks) ==
    [origin |-> OriginOriginal,
     presence |-> BLit(<<"p", 0, 0>>), scope |-> BTrue,
     start |-> ACst("int", ORIGIN), end |-> ACst("int", LcpHorizon),
     task |-> <<>>,
     subtasks |-> [j \in 1..Len(ks) |->
                      [start |-> AVar("int", <<"s", 0, j>>), end |-> ACst("int", LcpHorizon),
                       task |-> <<ACst("sym", j)>>]],
     conditions |-> <<>>, effects |-> <<>>]
HtnRefiner(j, i) ==
    [origin |-> OriginRefinement(0, j - 1),
     presence |-> BLit(<<"r", j, i>>), scope |-> BLit(<<"p", 0, 0>>),
     start |-> AVar("int", <<"rs", j, i>>), end |-> ACst("int", LcpHorizon),
     task |-> <<ACst("sym", j)>>, subtasks |-> <<>>, conditions |-> <<>>, effects |-> <<>>]
PopulateWithTaskNetwork(ks) ==
    <<HtnRoot(ks)>> \o ConcatAll([j \in 1..Len(ks) |-> [i \in 1..ks[j] |-> HtnRefiner(j, i)]])

\* A chronicle with the condition sv(0, x) = 1 over [cs, cs], followed by one
\* action per effect; the effects differ in the arity, the arguments and the
\* value of their state variable.
EffectKinds == {"x0", "x1", "arity", "arg", "kind", "value", "var"}
EffectOfKind(k, i) ==
    [transition_start |-> ACst("int", ORIGIN),
     persistence_start |-> AVar("int", <<"ps", i, 0>>),
     state_var |-> IF k = "arity" THEN <<ACst("sym", 0)>>
                   ELSE IF k = "arg" THEN <<ACst("sym", 0), ACst("sym", 2)>>
                   ELSE IF k = "kind" THEN <<ACst("sym", 0), ACst("int", 1)>>
                   ELSE IF k = "x0" THEN <<ACst("sym", 0), ACst("sym", 0)>>
                   ELSE IF k = "var" THEN <<ACst("sym", 0), AVar("sym", <<"y", i, 0>>)>>
                   ELSE <<ACst("sym", 0), ACst("sym", 1)>>,
     value |-> IF k = "value" THEN ACst("sym", 0) ELSE ACst("sym", 1)]
ConditionHolder ==
    [origin |-> OriginOriginal,
     presence |-> BLit(<<"p", 0, 0>>), scope |-> BTrue,
     start |-> ACst("int", ORIGIN), end |-> ACst("int", LcpHorizon),
     task |-> <<>>, subtasks |-> <<>>,
     conditions |-> <<[start |-> AVar("int", <<"cs", 0, 0>>), end |-> AVar("int", <<"cs", 0, 0>>),
                       state_var |-> <<ACst("sym", 0), AVar("sym", <<"x", 0, 0>>)>>,
                       value |-> ACst("sym", 1)]>>,
     effects |-> <<>>]
CausalChronicles(kinds) ==
    <<ConditionHolder>> \o
    [i \in 1..Len(kinds) |-> TemplateInstance(i - 1, 0, <<EffectOfKind(kinds[i], i)>>)]

\* The variables an atom, a literal, a chronicle mention.
AtomVars(a) == IF a.var = <<>> THEN {} ELSE {a.var}
SeqAtomVars(s) == UNION {AtomVars(s[i]) : i \in 1..Len(s)}
ChronicleVars(ch) ==
    (IF ch.presence.v = <<"TRUE">> THEN {} ELSE {ch.presence.v})
    \cup AtomVars(ch.start) \cup AtomVars(ch.end) \cup SeqAtomVars(ch.task)
    \cup UNION {AtomVars(ch.subtasks[i].start) \cup AtomVars(ch.subtasks[i].end)
                   \cup SeqAtomVars(ch.subtasks[i].task) : i \in 1..Len(ch.subtasks)}
    \cup UNION {AtomVars(ch.conditions[i].start) \cup AtomVars(ch.conditions[i].end)
                   \cup SeqAtomVars(ch.conditions[i].state_var)
                   \cup AtomVars(ch.conditions[i].value) : i \in 1..Len(ch.conditions)}
    \cup UNION {AtomVars(ch.effects[i].transition_start)
                   \cup AtomVars(ch.effects[i].persistence_start)
                   \cup SeqAtomVars(ch.effects[i].state_var)
                   \cup AtomVars(ch.effects[i].value) : i \in 1..Len(ch.effects)}

\* The domain of a variable: time points range over [ORIGIN, horizon], the
\* other variables over {0, 1}.
VarUb(v) == IF v[1] \in {"s", "rs", "cs", "ps", "ee"} THEN LcpHorizon ELSE 1

\* FiniteProblem: the chronicles and the model declaring their variables; the
\* variables of a chronicle are present with the chronicle.
FiniteProblem(chs) ==
    LET vs == UNION {ChronicleVars(chs[i]) : i \in 1..Len(chs)}
        owner(v) == CHOOSE i \in 1..Len(chs) : v \in ChronicleVars(chs[i])
    IN  [chronicles |-> chs,
         horizon |-> ACst("int", LcpHorizon),
         model |-> [vars |-> vs,
                    lb |-> [v \in vs |-> 0],
                    ub |-> [v \in vs |-> VarUb(v)],
                    presence |-> [v \in vs |->
                                     IF v = chs[owner(v)].presence.v
                                     THEN chs[owner(v)].scope
                                     ELSE chs[owner(v)].presence]]]

\* The problems encoded: free actions, task networks, conditions and effects.
InstanceCounts == {<<a, b>> : a \in 0..MaxInstances, b \in 0..1}
RefinerCounts == {<<a>> : a \in 0..MaxInstances} \cup {<<a, b>> : a \in 1..2, b \in 0..1}
EffectLists == {<<>>} \cup {<<k>> : k \in EffectKinds}
                \cup {<<k1, k2>> : k1 \in {"x0", "x1", "arg", "var"}, k2 \in EffectKinds}
LcpProblems ==
    {FiniteProblem(PopulateWithTemplateInstances(n)) : n \in InstanceCounts}
    \cup {FiniteProblem(PopulateWithTaskNetwork(ks)) : ks \in RefinerCounts}
    \cup {FiniteProblem(CausalChronicles(kinds)) : kinds \in EffectLists}

\* Model::int_bounds, Model::unifiable and unifiable_sv of encode
IntBounds(m, a) ==
    IF a.var = <<>> THEN [lb |-> a.cst, ub |-> a.cst]
    ELSE [lb |-> m.lb[a.var], ub |-> m.ub[a.var]]
Unifiable(m, a, b) ==
    IF a.kind # b.kind THEN FALSE
    ELSE ~(IntBounds(m, a).ub < IntBounds(m, b).lb \/ IntBounds(m, b).ub < IntBounds(m, a).lb)
UnifiableSv(m, sv1, sv2) ==
    IF Len(sv1) # Len(sv2) THEN FALSE
    ELSE \A i \in 1..Len(sv1) : Unifiable(m, sv1[i], sv2[i])

\* effects(pb), conditions(pb): each with the presence of its chronicle.
LcpEffects(pb) ==
    ConcatAll([c \in 1..Len(pb.chronicles) |->
                  [e \in 1..Len(pb.chronicles[c].effects) |->
                      [prez |-> pb.chronicles[c].presence, eff |-> pb.chronicles[c].effects[e]]]])
LcpConditions(pb) ==
    ConcatAll([c \in 1..Len(pb.chronicles) |->
                  [k \in 1..Len(pb.chronicles[c].conditions) |->
                      [prez |-> pb.chronicles[c].presence, cond |-> pb.chronicles[c].conditions[k]]]])

\* eff_ends: one new variable in [ORIGIN, HORIZON] per effect.
EffEnd(i) == AVar("int", <<"ee", i, 0>>)
WithEffEnds(m, n) ==
    LET new == {<<"ee", i, 0>> : i \in 1..n}
    IN  [vars |-> m.vars \cup new,
         lb |-> [v \in m.vars \cup new |-> IF v \in new THEN ORIGIN ELSE m.lb[v]],
         ub |-> [v \in m.vars \cup new |-> IF v \in new THEN LcpHorizon ELSE m.ub[v]],
         presence |-> [v \in m.vars \cup new |-> IF v \in new THEN BTrue ELSE m.presence[v]]]

CoherenceClause_ReversedOrder(p1, e1, i, p2, e2, j) ==
    COr(<<CLit(BNot(p1)), CLit(BNot(p2))>>
        \o ConcatAll([idx \in 1..Len(e1.state_var) |->
                         IF e1.state_var[idx] # e2.state_var[idx]
                         THEN <<CNeq(e1.state_var[idx], e2.state_var[idx])>> ELSE <<>>])
        \o <<CLeq(e1.transition_start, EffEnd(j)), CLeq(e2.transition_start, EffEnd(i))>>)

\* encode: the coherence clause of the effects i < j.
CoherenceClause(p1, e1, i, p2, e2, j) ==
    COr(<<CLit(BNot(p1)), CLit(BNot(p2))>>
        \o ConcatAll([idx \in 1..Len(e1.state_var) |->
                         IF e1.state_var[idx] # e2.state_var[idx]
                         THEN <<CNeq(e1.state_var[idx], e2.state_var[idx])>> ELSE <<>>])
        \o <<CLeq(EffEnd(j), e1.transition_start), CLeq(EffEnd(i), e2.transition_start)>>)

SupportConjunction_NoPersistence(cond, prez_eff, eff, eff_id) ==
    CAnd(<<CLit(prez_eff)>>
         \o [idx \in 1..Len(cond.state_var) |-> CEq(cond.state_var[idx], eff.state_var[idx])]
         \o <<CEq(cond.value, eff.value)>>)

\* encode: the conjunction stating that the effect supports the condition.
SupportConjunction(cond, prez_eff, eff, eff_id) ==
    CAnd(<<CLit(prez_eff)>>
         \o [idx \in 1..Len(cond.state_var) |-> CEq(cond.state_var[idx], eff.state_var[idx])]
         \o <<CEq(cond.value, eff.value),
              CLeq(eff.persistence_start, cond.start),
              CLeq(cond.end, EffEnd(eff_id))>>)

\* encode: the support clause of a condition.
SupportClause(m, prez_cond, cond, effs) ==
    COr(<<CLit(BNot(prez_cond))>>
        \o ConcatAll([i \in 1..Len(effs) |->
                         IF ~UnifiableSv(m, cond.state_var, effs[i].eff.state_var) THEN <<>>
                         ELSE IF ~Unifiable(m, cond.value, effs[i].eff.value) THEN <<>>
                         ELSE <<SupportConjunction(cond, effs[i].prez, effs[i].eff, i)>>]))

\* encode, up to the call of add_decomposition_constraints. The chronicles of
\* the problems above carry no constraint of their own (InTable, Lt, Eq, Neq).
EncodeBody(pb) ==
    LET effs == LcpEffects(pb)
        conds == LcpConditions(pb)
        m == WithEffEnds(pb.model, Len(effs))
        chs == pb.chronicles
    IN  [model |-> m,
         constraints |->
            [k \in 1..Len(conds) |-> CLeq(conds[k].cond.start, conds[k].cond.end)]
            \o ConcatAll([i \in 1..Len(effs) |->
                  <<CLeq(effs[i].eff.persistence_start, EffEnd(i)),
                    CLeq(effs[i].eff.transition_start, effs[i].eff.persistence_start)>>])
            \o ConcatAll([i \in 1..Len(effs) |->
                  ConcatAll([j \in 1..Len(effs) |->
                     IF j > i /\ UnifiableSv(m, effs[i].eff.state_var, effs[j].eff.state_var)
                     THEN <<CoherenceClause(effs[i].prez, effs[i].eff, i,
                                            effs[j].prez, effs[j].eff, j)>>
                     ELSE <<>>])])
            \o [k \in 1..Len(conds) |-> SupportClause(m, conds[k].prez, conds[k].cond, effs)]
            \o ConcatAll([c \in 1..Len(chs) |->
                  <<CImplies(CLit(chs[c].presence), CLeq(chs[c].end, pb.horizon)),
                    CLeq(chs[c].start, chs[c].end)>>
                  \o [s \in 1..Len(chs[c].subtasks) |->
                        CImplies(CLit(chs[c].presence),
                                 CAnd(<<CLeq(chs[c].subtasks[s].start, chs[c].subtasks[s].end),
                                        CLeq(chs[c].start, chs[c].subtasks[s].start),
                                        CLeq(chs[c].subtasks[s].end, chs[c].end)>>))]])]

\* TaskRef of a subtask and of a refining chronicle
TaskRef(presence, start, end, task) ==
    [presence |-> presence, start |-> start, end |-> end, task |-> task]

\* refinements_of: the chronicles whose origin is the refinement of the task.
RefinementsOf(instance_id, task_id, pb) ==
    ConcatAll([c \in 1..Len(pb.chronicles) |->
                  IF pb.chronicles[c].origin = OriginRefinement(instance_id, task_id)
                  THEN <<TaskRef(pb.chronicles[c].presence, pb.chronicles[c].start,
                                 pb.chronicles[c].end, pb.chronicles[c].task)>>
                  ELSE <<>>])

EnforceRefinement_AtLeastOne(t, supporters) ==
    <<COr(<<CLit(BNot(t.presence))>> \o [s \in 1..Len(supporters) |-> CLit(supporters[s].presence)])>>
    \o ConcatAll([s \in 1..Len(supporters) |->
          <<CImplies(CLit(supporters[s].presence), CLit(t.presence)),
            COptEq(supporters[s].start, t.start),
            COptEq(supporters[s].end, t.end)>>
          \o [k \in 1..Len(supporters[s].task) |-> COptEq(supporters[s].task[k], t.task[k])]])

\* enforce_refinement
EnforceRefinement(t, supporters) ==
    <<COr(<<CLit(BNot(t.presence))>> \o [s \in 1..Len(supporters) |-> CLit(supporters[s].presence)])>>
    \o ConcatAll([i \in 1..Len(supporters) |->
          ConcatAll([j \in 1..Len(supporters) |->
             IF i # j
             THEN <<CImplies(CLit(supporters[i].presence), CLit(BNot(supporters[j].presence)))>>
             ELSE <<>>])])
    \o ConcatAll([s \in 1..Len(supporters) |->
          <<CImplies(CLit(supporters[s].presence), CLit(t.presence)),
            COptEq(supporters[s].start, t.start),
            COptEq(supporters[s].end, t.end)>>
          \o [k \in 1..Len(supporters[s].task) |-> COptEq(supporters[s].task[k], t.task[k])]])

\* add_decomposition_constraints: instance and task ids count from 0.
AddDecompositionConstraints(pb) ==
    ConcatAll([c \in 1..Len(pb.chronicles) |->
       ConcatAll([t \in 1..Len(pb.chronicles[c].subtasks) |->
          EnforceRefinement(TaskRef(pb.chronicles[c].presence,
                                    pb.chronicles[c].subtasks[t].start,
                                    pb.chronicles[c].subtasks[t].end,
                                    pb.chronicles[c].subtasks[t].task),
                            RefinementsOf(c - 1, t - 1, pb))])])

\* add_symmetry_breaking
AddSymmetryBreaking(pb, tpe) ==
    IF tpe = "None" THEN <<>>
    ELSE ConcatAll([i \in 1..Len(pb.chronicles) |->
            ConcatAll([j \in 1..Len(pb.chronicles) |->
               LET o1 == pb.chronicles[i].origin
                   o2 == pb.chronicles[j].origin
               IN  IF /\ o1.kind = "FreeAction" /\ o2.kind = "FreeAction"
                      /\ o1.template_id = o2.template_id
                      /\ o1.generation_id < o2.generation_id
                   THEN <<CImplies(CLit(pb.chronicles[i].presence),
                                   CLit(pb.chronicles[j].presence)),
                          CLeq(pb.chronicles[i].start, pb.chronicles[j].start)>>
                   ELSE <<>>])])

\* The value of literals, atoms and expressions in an assignment. A variable
\* is present when its presence literal holds; opt_eq constrains present
\* variables only.
LitHolds(asg, l) == IF l.v = <<"TRUE">> THEN l.pos ELSE (asg[l.v] = 1) = l.pos
AtomValue(asg, a) == IF a.var = <<>> THEN a.cst ELSE asg[a.var]
AtomPresent(m, asg, a) == a.var = <<>> \/ LitHolds(asg, m.presence[a.var])
RECURSIVE ExprHolds(_, _, _)
ExprHolds(m, asg, c) ==
    CASE c.op = "lit" -> LitHolds(asg, c.lit)
      [] c.op = "or" -> \E i \in 1..Len(c.args) : ExprHolds(m, asg, c.args[i])
      [] c.op = "and" -> \A i \in 1..Len(c.args) : ExprHolds(m, asg, c.args[i])
      [] c.op = "implies" -> ExprHolds(m, asg, c.a) => ExprHolds(m, asg, c.b)
      [] c.op = "leq" -> AtomValue(asg, c.a) <= AtomValue(asg, c.b)
      [] c.op = "eq" -> AtomValue(asg, c.a) = AtomValue(asg, c.b)
      [] c.op = "neq" -> AtomValue(asg, c.a) # AtomValue(asg, c.b)
      [] c.op = "opt_eq" -> (AtomPresent(m, asg, c.a) /\ AtomPresent(m, asg, c.b))
                               => AtomValue(asg, c.a) = AtomValue(asg, c.b)

\* The assignments of a model: every variable in its domain, a presence
\* variable true only when its scope holds.
LcpAssignments(m) ==
    LET times == {v \in m.vars : m.ub[v] = LcpHorizon}
        all == {[v \in m.vars |-> IF v \in times THEN f[v] ELSE g[v]] :
                   f \in [times -> ORIGIN..LcpHorizon], g \in [m.vars \ times -> 0..1]}
    IN  {a \in all : \A v \in m.vars :
            (v[1] \in {"p", "r"} /\ a[v] = 1) => LitHolds(a, m.presence[v])}

NoAssignment == [v \in {} |-> 0]
lcpOthers == <<cdcl, br, mdl, bnd, vld>>
InitLcp ==
    /\ SmtOff
    /\ cdcl = Off /\ br = Off /\ mdl = Off /\ bnd = Off /\ vld = Off
    /\ \E pb \in LcpProblems, tpe \in {"None", "Simple"} :
          lcp = [pc |-> "encode", pb |-> pb, tpe |-> tpe, model |-> pb.model,
                 constraints |-> <<>>, asg |-> NoAssignment]

LcpStep(at) ==
    /\ lcp.pc = at
    /\ UNCHANGED <<smtVars, lcpOthers>>

\* encode, up to the hierarchical constraints
LcpEncode ==
    /\ LcpStep("encode")
    /\ LET r == EncodeBody(lcp.pb)
       IN  lcp' = [lcp EXCEPT !.model = r.model, !.constraints = r.constraints,
                              !.pc = "decomposition"]

\* encode: the call of add_decomposition_constraints
LcpAddDecompositionConstraints ==
    /\ LcpStep("decomposition")
    /\ lcp' = [lcp EXCEPT !.constraints = @ \o AddDecompositionConstraints(lcp.pb),
                          !.pc = "symmetry"]

\* encode: the call of add_symmetry_breaking
LcpAddSymmetryBreaking ==
    /\ LcpStep("symmetry")
    /\ lcp' = [lcp EXCEPT !.constraints = @ \o AddSymmetryBreaking(lcp.pb, lcp.tpe),
                          !.pc = "solve"]

\* solve: the solver returns an assignment satisfying every constraint.
LcpSolve ==
    /\ LcpStep("solve")
    /\ \E asg \in LcpAssignments(lcp.model) :
          /\ \A i \in 1..Len(lcp.constraints) : ExprHolds(lcp.model, asg, lcp.constraints[i])
          /\ lcp' = [lcp EXCEPT !.asg = asg, !.pc = "solved"]

NextLcp ==
    \/ LcpEncode
    \/ LcpAddDecompositionConstraints
    \/ LcpAddSymmetryBreaking
    \/ LcpSolve
SpecLcp == InitLcp /\ [][NextLcp]_vars

\* C18 as stated: with the Simple symmetry breaking, in every assignment the
\* solver returns, an instance of a template is present whenever an instance of
\* the same template with a larger generation id is, and starts no later.
C18_EarlierInstancePresent ==
    (lcp.pc = "solved" /\ lcp.tpe = "Simple") =>
        \A i, j \in 1..Len(lcp.pb.chronicles) :
            LET ci == lcp.pb.chronicles[i]
                cj == lcp.pb.chronicles[j]
            IN  (/\ ci.origin.kind = "FreeAction" /\ cj.origin.kind = "FreeAction"
                 /\ ci.origin.template_id = cj.origin.template_id
                 /\ ci.origin.generation_id < cj.origin.generation_id)
                => /\ LitHolds(lcp.asg, cj.presence) => LitHolds(lcp.asg, ci.presence)
                   /\ AtomValue(lcp.asg, ci.start) <= AtomValue(lcp.asg, cj.start)

\* C19: in every assignment the solver returns, for every subtask of a
\* chronicle, exactly one of the chronicles refining it is present when the
\* chronicle is present and none when it is absent; a chronicle with a
\* subtask that no chronicle refines is absent.
C19_ExactlyOneRefiner ==
    lcp.pc = "solved" =>
        \A c \in 1..Len(lcp.pb.chronicles) :
            \A t \in 1..Len(lcp.pb.chronicles[c].subtasks) :
                LET R == {r \in 1..Len(lcp.pb.chronicles) :
                             lcp.pb.chronicles[r].origin = OriginRefinement(c - 1, t - 1)}
                    n == Cardinality({r \in R : LitHolds(lcp.asg, lcp.pb.chronicles[r].presence)})
                    pt == LitHolds(lcp.asg, lcp.pb.chronicles[c].presence)
                IN  /\ pt => n = 1
                    /\ ~pt => n = 0
                    /\ R = {} => ~pt

\* A present chronicle with a subtask that has three refiners, the second of
\* which is the one present.
C19_Witness ==
    /\ lcp.pc = "solved"
    /\ Len(lcp.pb.chronicles) = 4
    /\ lcp.pb.chronicles[1].origin.kind = "Original"
    /\ Len(lcp.pb.chronicles[1].subtasks) = 1
    /\ LitHolds(lcp.asg, lcp.pb.chronicles[1].presence)
    /\ lcp.pb.chronicles[3].origin = OriginRefinement(0, 0)
    /\ LitHolds(lcp.asg, lcp.pb.chronicles[3].presence)

\* C20: for every condition, encode emits one support clause: its first
\* disjunct is the negated presence of the condition's chronicle and the others
\* are, for exactly the effects whose state variable has the arity of the
\* condition's and unifiable arguments and whose value is unifiable with the
\* condition's, the conjunction of the effect's presence, the equality of the
\* state variables and of the values, persistence_start <= start and
\* end <= persistence end. In every assignment the solver returns, a present
\* condition has such an effect present with these facts true, and a condition
\* with no compatible effect is absent.
C20_SupportClause ==
    lcp.pc # "encode" =>
        LET effs == LcpEffects(lcp.pb)
            conds == LcpConditions(lcp.pb)
        IN  \A k \in 1..Len(conds) :
               LET cond == conds[k].cond
                   compatible ==
                      {i \in 1..Len(effs) :
                          /\ Len(effs[i].eff.state_var) = Len(cond.state_var)
                          /\ \A idx \in 1..Len(cond.state_var) :
                                Unifiable(lcp.model, cond.state_var[idx], effs[i].eff.state_var[idx])
                          /\ Unifiable(lcp.model, cond.value, effs[i].eff.value)}
                   clauses ==
                      {n \in 1..Len(lcp.constraints) :
                          /\ lcp.constraints[n].op = "or"
                          /\ lcp.constraints[n].args[1] = CLit(BNot(conds[k].prez))
                          /\ Len(lcp.constraints[n].args) = 1 + Cardinality(compatible)
                          /\ {lcp.constraints[n].args[a] : a \in 2..Len(lcp.constraints[n].args)}
                                = {CAnd(<<CLit(effs[i].prez)>>
                                        \o [idx \in 1..Len(cond.state_var) |->
                                               CEq(cond.state_var[idx], effs[i].eff.state_var[idx])]
                                        \o <<CEq(cond.value, effs[i].eff.value),
                                             CLeq(effs[i].eff.persistence_start, cond.start),
                                             CLeq(cond.end, EffEnd(i))>>) : i \in compatible}}
               IN  /\ Cardinality(clauses) = 1
                   /\ lcp.pc = "solved" =>
                         /\ LitHolds(lcp.asg, conds[k].prez) =>
                               \E i \in compatible :
                                  /\ LitHolds(lcp.asg, effs[i].prez)
                                  /\ \A idx \in 1..Len(cond.state_var) :
                                        AtomValue(lcp.asg, cond.state_var[idx])
                                           = AtomValue(lcp.asg, effs[i].eff.state_var[idx])
                                  /\ AtomValue(lcp.asg, cond.value) = AtomValue(lcp.asg, effs[i].eff.value)
                                  /\ AtomValue(lcp.asg, effs[i].eff.persistence_start)
                                        <= AtomValue(lcp.asg, cond.start)
                                  /\ AtomValue(lcp.asg, cond.end) <= AtomValue(lcp.asg, EffEnd(i))
                         /\ compatible = {} => ~LitHolds(lcp.asg, conds[k].prez)

\* A present condition with two effects, the first with an argument that
\* cannot be unified and the second, compatible and present, holding from
\* time 1 on.
C20_Witness ==
    /\ lcp.pc = "solved"
    /\ Len(LcpConditions(lcp.pb)) = 1 /\ Len(LcpEffects(lcp.pb)) = 2
    /\ ~UnifiableSv(lcp.model, LcpConditions(lcp.pb)[1].cond.state_var,
                    LcpEffects(lcp.pb)[1].eff.state_var)
    /\ UnifiableSv(lcp.model, LcpConditions(lcp.pb)[1].cond.state_var,
                   LcpEffects(lcp.pb)[2].eff.state_var)
    /\ LitHolds(lcp.asg, LcpConditions(lcp.pb)[1].prez)
    /\ LitHolds(lcp.asg, LcpEffects(lcp.pb)[2].prez)
    /\ AtomValue(lcp.asg, LcpConditions(lcp.pb)[1].cond.start) = LcpHorizon

\* C21: in every assignment the solver returns, two distinct effects with
\* unifiable state variables that are both present and whose state-variable
\* arguments are all equal do not overlap: the end of one (eff_ends) is at or
\* before the transition start of the other.
C21_EffectsMutex ==
    lcp.pc = "solved" =>
        LET effs == LcpEffects(lcp.pb)
            m == lcp.model
            a == lcp.asg
        IN  \A i, j \in 1..Len(effs) :
               (/\ i # j
                /\ UnifiableSv(m, effs[i].eff.state_var, effs[j].eff.state_var)
                /\ LitHolds(a, effs[i].prez) /\ LitHolds(a, effs[j].prez)
                /\ \A idx \in 1..Len(effs[i].eff.state_var) :
                      AtomValue(a, effs[i].eff.state_var[idx])
                         = AtomValue(a, effs[j].eff.state_var[idx]))
               => \/ AtomValue(a, EffEnd(j)) <= AtomValue(a, effs[i].eff.transition_start)
                  \/ AtomValue(a, EffEnd(i)) <= AtomValue(a, effs[j].eff.transition_start)

\* Two present effects on state variables with distinct argument variables that
\* the assignment makes equal, the second ending before the first starts.
C21_Witness ==
    /\ lcp.pc = "solved"
    /\ Len(LcpEffects(lcp.pb)) = 2
    /\ LET effs == LcpEffects(lcp.pb)
           a == lcp.asg
       IN  /\ UnifiableSv(lcp.model, effs[1].eff.state_var, effs[2].eff.state_var)
           /\ effs[1].eff.state_var[2] # effs[2].eff.state_var[2]
           /\ effs[1].eff.state_var[2].var # <<>>
           /\ effs[2].eff.state_var[2].var # <<>>
           /\ LitHolds(a, effs[1].prez) /\ LitHolds(a, effs[2].prez)
           /\ \A idx \in 1..Len(effs[1].eff.state_var) :
                 AtomValue(a, effs[1].eff.state_var[idx])
                    = AtomValue(a, effs[2].eff.state_var[idx])
           /\ AtomValue(a, EffEnd(2)) <= AtomValue(a, effs[1].eff.transition_start)

\* Every declared variable that is not bound is queued, in the heap of its
\* stage.
UnboundVariablesQueued ==
    \A v \in Vars :
        (br.b.stages[v] >= 0 /\ ~IsBound(br.d, v)) =>
            (v \in br.b.heap /\ br.b.heap_index[v] = br.b.stages[v])

\* The removals logged since the save point of a level.
RemovalsAbove(b, lvl) ==
    {b.trail[i] : i \in (IF lvl < Len(b.saved) THEN b.saved[lvl + 1] + 1
                         ELSE Len(b.trail) + 1)..Len(b.trail)}

C36_DecisionTightens ==
    (br.pc = "run" /\ br.op = "next_decision" /\ br.dec.kind = "SetLiteral") =>
        LET l == br.dec.lit
            lb == br.d.lb[l.v]
            ub == br.d.ub[l.v]
        IN  /\ lb < ub
            /\ l.r = "leq" => (lb <= l.k /\ l.k < ub)
            /\ l.r = "geq" => (lb < l.k /\ l.k <= ub)
            /\ DomSet(DomSaveState(br.d), l, "decision").res = "modified"

\* The preferred value of the variable decided on is no longer in its domain.
C36_Witness ==
    /\ br.pc = "run" /\ br.op = "next_decision" /\ br.dec.kind = "SetLiteral"
    /\ br.dec.lit.v \in DOMAIN br.b.default_assignment
    /\ br.b.default_assignment[br.dec.lit.v] > br.d.ub[br.dec.lit.v]
    /\ br.dec.lit.r = "geq"

\* ---------------------------------------------------------------------------
\* lcp: populating a finite problem with instances of the chronicle templates
\* (populate_with_template_instances, populate_with_task_network, instantiate).

MaxDepth == 2

\* A function with one more point.
MapAdd(f, k, x) == [u \in DOMAIN f \cup {k} |-> IF u = k THEN x ELSE f[u]]
NoSub == [v \in {} |-> <<>>]

\* Domains::new_var, new_optional_var, new_presence_literal: the new variable
\* is the next one of the model and records the literal it is present with.
NewVar(m, lb, ub, presence) ==
    LET v == <<"v", Cardinality(m.vars), 0>>
    IN  [var |-> v,
         model |-> [vars |-> m.vars \cup {v}, lb |-> MapAdd(m.lb, v, lb),
                    ub |-> MapAdd(m.ub, v, ub), presence |-> MapAdd(m.presence, v, presence)]]

NewPresenceVariable_Unscoped(m, scope) == NewVar(m, 0, 1, BTrue)

\* Model::new_presence_variable
NewPresenceVariable(m, scope) == NewVar(m, 0, 1, scope)

\* Sub::sub_bound and the substitution of an atom
SubBound(sub, l) == IF l.v \in DOMAIN sub THEN [l EXCEPT !.v = sub[l.v]] ELSE l
SubAtom(sub, a) == IF a.var \in DOMAIN sub THEN [a EXCEPT !.var = sub[a.var]] ELSE a

\* ChronicleTemplate::instantiate: the chronicle of the template with the
\* substitution applied to every variable.
TemplateInstantiate(template, sub, origin) ==
    LET ch == template.chronicle
    IN  [origin |-> origin,
         presence |-> SubBound(sub, ch.presence),
         start |-> SubAtom(sub, ch.start),
         task |-> [k \in 1..Len(ch.task) |->
                      [i \in 1..Len(ch.task[k]) |-> SubAtom(sub, ch.task[k][i])]],
         subtasks |-> [k \in 1..Len(ch.subtasks) |->
                          [task |-> [i \in 1..Len(ch.subtasks[k].task) |->
                                        SubAtom(sub, ch.subtasks[k].task[i])]]]]

\* instantiate: the loop over the parameters of the template. A boolean
\* parameter ranges over {0, 1}, an integer or symbolic one over the domain
\* of the parameter it replaces.
RECURSIVE InstantiateParameters(_, _, _, _, _)
InstantiateParameters(params, k, sub, prez_lit, m) ==
    IF k > Len(params) THEN [sub |-> sub, model |-> m]
    ELSE IF params[k].var \in DOMAIN sub
    THEN InstantiateParameters(params, k + 1, sub, prez_lit, m)
    ELSE LET v == params[k].var
             fresh == IF params[k].kind = "bool" THEN NewVar(m, 0, 1, prez_lit)
                      ELSE NewVar(m, m.lb[v], m.ub[v], prez_lit)
         IN  InstantiateParameters(params, k + 1, MapAdd(sub, v, fresh.var), prez_lit,
                                   fresh.model)

\* instantiate
Instantiate(template, origin, scope, pb) ==
    LET prez_template == template.chronicle.presence.v
        prez_instance == NewPresenceVariable(pb.model, scope)
        sub == MapAdd(NoSub, prez_template, prez_instance.var)
        prez_lit == SubBound(sub, template.chronicle.presence)
        r == InstantiateParameters(template.parameters, 1, sub, prez_lit, prez_instance.model)
    IN  [pb |-> [pb EXCEPT !.model = r.model],
         instance |-> TemplateInstantiate(template, r.sub, origin)]

\* Model::unifiable_seq
UnifiableSeq(m, a, b) ==
    IF Len(a) # Len(b) THEN FALSE
    ELSE \A i \in 1..Len(a) : Unifiable(m, a[i], b[i])

\* refinements_of_task: the templates whose task is unifiable with the task.
RefinementsOfTask(task, pb, spec) ==
    ConcatAll([t \in 1..Len(spec) |->
                  IF Len(spec[t].chronicle.task) = 1
                     /\ UnifiableSeq(pb.model, task, spec[t].chronicle.task[1])
                  THEN <<spec[t]>> ELSE <<>>])

SkipTemplate_AtMaxDepth(depth, max_depth, template) ==
    depth = max_depth /\ Len(template.chronicle.subtasks) # 0

\* populate_with_task_network: the template is not instantiated.
SkipTemplate(depth, max_depth, template) ==
    depth = max_depth - 1 /\ Len(template.chronicle.subtasks) # 0

\* The Subtask records populate_with_task_network collects from a chronicle.
SubtasksOf(ch, instance_id) ==
    [task_id \in 1..Len(ch.subtasks) |->
        [task |-> ch.subtasks[task_id].task, instance_id |-> instance_id,
         task_id |-> task_id - 1, scope |-> ch.presence]]

\* The templates: a parameter list (the presence variable is not the first
\* one) and a chronicle achieving a task, with or without subtasks.
TemplateKinds == {"prim1", "meth1", "meth2", "unary", "free"}
TVar(tid, k) == <<"t", tid, k>>
PopTemplate(kind, tid) ==
    LET arg == AVar("sym", TVar(tid, 2))
        t1 == <<ACst("sym", 1), arg>>
        t2 == <<ACst("sym", 2), arg>>
    IN  [id |-> tid,
         parameters |-> <<[kind |-> "int", var |-> TVar(tid, 1)],
                          [kind |-> "bool", var |-> TVar(tid, 0)],
                          [kind |-> "sym", var |-> TVar(tid, 2)]>>,
         chronicle |->
            [presence |-> BLit(TVar(tid, 0)),
             start |-> AVar("int", TVar(tid, 1)),
             task |-> IF kind = "free" THEN <<>>
                      ELSE IF kind = "unary" THEN <<<<ACst("sym", 1)>>>>
                      ELSE IF kind = "meth2" THEN <<t2>> ELSE <<t1>>,
             subtasks |-> IF kind = "meth1" THEN <<[task |-> t1]>>
                          ELSE IF kind = "meth2"
                          THEN <<[task |-> t1], [task |-> <<ACst("sym", 2), ACst("sym", 0)>>]>>
                          ELSE <<>>]]
TemplateLists ==
    {<<>>} \cup {<<PopTemplate(k, 0)>> : k \in TemplateKinds}
    \cup {<<PopTemplate(k1, 0), PopTemplate(k2, 1)>> : k1, k2 \in TemplateKinds}
TemplateVars(spec) == {TVar(tid, k) : tid \in 0..(Len(spec) - 1), k \in 0..2}

\* The chronicle of the problem itself: always present, with its subtasks.
RootTasks == {<<>>, <<1>>, <<2>>, <<1, 2>>}
RootChronicle(names) ==
    [origin |-> OriginOriginal, presence |-> BTrue, start |-> ACst("int", ORIGIN),
     task |-> <<>>,
     subtasks |-> [k \in 1..Len(names) |-> [task |-> <<ACst("sym", names[k]), ACst("sym", 1)>>]]]

\* The model of the problem declares the variables of the templates.
PopModel(spec) ==
    [vars |-> TemplateVars(spec),
     lb |-> [v \in TemplateVars(spec) |-> 0],
     ub |-> [v \in TemplateVars(spec) |-> 1],
     presence |-> [v \in TemplateVars(spec) |->
                      IF v[3] = 0 THEN BTrue ELSE BLit(TVar(v[2], 0))]]

\* The variables of a chronicle instance.
InstanceVars(ch) ==
    (IF ch.presence.v = <<"TRUE">> THEN {} ELSE {ch.presence.v})
    \cup AtomVars(ch.start)
    \cup UNION {SeqAtomVars(ch.task[k]) : k \in 1..Len(ch.task)}
    \cup UNION {SeqAtomVars(ch.subtasks[k].task) : k \in 1..Len(ch.subtasks)}

\* main: the problem is populated from the task network (htn_mode) or with n
\* instances of every template. The fields round, from and open record the
\* round each chronicle was created in, the template it is an instance of
\* and the subtasks each round started with.
InitPop ==
    /\ SmtOff
    /\ cdcl = Off /\ br = Off /\ mdl = Off /\ bnd = Off /\ vld = Off
    /\ \E spec \in TemplateLists, names \in RootTasks, n \in 0..MaxDepth, htn \in BOOLEAN :
          LET root == RootChronicle(IF htn THEN names ELSE <<>>)
              pb == [model |-> PopModel(spec), chronicles |-> <<root>>]
              subtasks == SubtasksOf(root, 0)
          IN  lcp = [pc |-> "populate", htn_mode |-> htn, spec |-> spec, n |-> n, pb |-> pb,
                     depth |-> 0, subtasks |-> subtasks, new_subtasks |-> <<>>,
                     ti |-> 1, ci |-> 1,
                     cands |-> IF htn /\ n > 0 /\ Len(subtasks) > 0
                               THEN RefinementsOfTask(subtasks[1].task, pb, spec) ELSE <<>>,
                     template_id |-> 0, instantiation_id |-> 0,
                     round |-> <<-1>>, open |-> <<subtasks>>, from |-> <<-1>>]

PopStep(htn) ==
    /\ lcp.pc = "populate"
    /\ lcp.htn_mode = htn
    /\ UNCHANGED <<smtVars, lcpOthers>>

\* populate_with_task_network: the template of the inner loop is instantiated
\* in the scope of the task and its subtasks are recorded for the next round.
PopInstantiate ==
    /\ PopStep(TRUE)
    /\ lcp.depth < lcp.n
    /\ lcp.ti <= Len(lcp.subtasks)
    /\ lcp.ci <= Len(lcp.cands)
    /\ ~SkipTemplate(lcp.depth, lcp.n, lcp.cands[lcp.ci])
    /\ LET task == lcp.subtasks[lcp.ti]
           template == lcp.cands[lcp.ci]
           r == Instantiate(template, OriginRefinement(task.instance_id, task.task_id),
                            task.scope, lcp.pb)
           instance_id == Len(lcp.pb.chronicles)
       IN  lcp' = [lcp EXCEPT !.pb = [r.pb EXCEPT !.chronicles = @ \o <<r.instance>>],
                              !.new_subtasks = @ \o SubtasksOf(r.instance, instance_id),
                              !.ci = @ + 1,
                              !.round = @ \o <<lcp.depth>>,
                              !.from = @ \o <<template.id>>]

\* populate_with_task_network: the template has subtasks at the last depth.
PopSkip ==
    /\ PopStep(TRUE)
    /\ lcp.depth < lcp.n
    /\ lcp.ti <= Len(lcp.subtasks)
    /\ lcp.ci <= Len(lcp.cands)
    /\ SkipTemplate(lcp.depth, lcp.n, lcp.cands[lcp.ci])
    /\ lcp' = [lcp EXCEPT !.ci = @ + 1]

\* populate_with_task_network: the next task of the round.
PopNextTask ==
    /\ PopStep(TRUE)
    /\ lcp.depth < lcp.n
    /\ lcp.ti <= Len(lcp.subtasks)
    /\ lcp.ci > Len(lcp.cands)
    /\ lcp' = [lcp EXCEPT !.ti = @ + 1, !.ci = 1,
                          !.cands = IF lcp.ti + 1 <= Len(lcp.subtasks)
                                    THEN RefinementsOfTask(lcp.subtasks[lcp.ti + 1].task,
                                                           lcp.pb, lcp.spec)
                                    ELSE <<>>]

\* populate_with_task_network: subtasks = new_subtasks, the next depth.
PopNextDepth ==
    /\ PopStep(TRUE)
    /\ lcp.depth < lcp.n
    /\ lcp.ti > Len(lcp.subtasks)
    /\ lcp' = [lcp EXCEPT !.depth = @ + 1, !.subtasks = lcp.new_subtasks,
                          !.new_subtasks = <<>>, !.ti = 1, !.ci = 1,
                          !.cands = IF lcp.depth + 1 < lcp.n /\ Len(lcp.new_subtasks) > 0
                                    THEN RefinementsOfTask(lcp.new_subtasks[1].task,
                                                           lcp.pb, lcp.spec)
                                    ELSE <<>>,
                          !.open = @ \o <<lcp.new_subtasks>>]

\* populate_with_template_instances: one more instance of the template, in
\* the scope TRUE.
PopFreeInstance ==
    /\ PopStep(FALSE)
    /\ lcp.template_id < Len(lcp.spec)
    /\ lcp.instantiation_id < lcp.n
    /\ LET template == lcp.spec[lcp.template_id + 1]
           r == Instantiate(template, OriginFreeAction(lcp.template_id, lcp.instantiation_id),
                            BTrue, lcp.pb)
       IN  lcp' = [lcp EXCEPT !.pb = [r.pb EXCEPT !.chronicles = @ \o <<r.instance>>],
                              !.instantiation_id = @ + 1,
                              !.round = @ \o <<0>>,
                              !.from = @ \o <<template.id>>]

\* populate_with_template_instances: the next template.
PopNextTemplate ==
    /\ PopStep(FALSE)
    /\ lcp.template_id < Len(lcp.spec)
    /\ lcp.instantiation_id = lcp.n
    /\ lcp' = [lcp EXCEPT !.template_id = @ + 1, !.instantiation_id = 0]

\* Both functions return Ok(()).
PopReturn ==
    /\ lcp.pc = "populate"
    /\ IF lcp.htn_mode THEN lcp.depth = lcp.n ELSE lcp.template_id = Len(lcp.spec)
    /\ lcp' = [lcp EXCEPT !.pc = "populated"]
    /\ UNCHANGED <<smtVars, lcpOthers>>

NextPop ==
    \/ PopInstantiate
    \/ PopSkip
    \/ PopNextTask
    \/ PopNextDepth
    \/ PopFreeInstance
    \/ PopNextTemplate
    \/ PopReturn
SpecPop == InitPop /\ [][NextPop]_vars

\* C22: populate_with_task_network(pb, spec, d) runs d rounds; in each round
\* it creates, for every open subtask in order, one instance of every template
\* whose task is unifiable with the subtask, skipping in the last round the
\* templates that have subtasks. No instance of the last round has subtasks,
\* the subtasks of the instances of a round are the open subtasks of the next
\* one, and with d = 0 no instance is created.
C22_TaskNetworkRounds ==
    (lcp.pc = "populated" /\ lcp.htn_mode) =>
        LET chs == lcp.pb.chronicles
            created(k) == ConcatAll([c \in 1..Len(chs) |->
                             IF lcp.round[c] = k THEN <<c>> ELSE <<>>])
            expected(k) ==
                ConcatAll([t \in 1..Len(lcp.open[k + 1]) |->
                   ConcatAll([j \in 1..Len(lcp.spec) |->
                      IF /\ Len(lcp.spec[j].chronicle.task) = 1
                         /\ UnifiableSeq(lcp.pb.model, lcp.open[k + 1][t].task,
                                         lcp.spec[j].chronicle.task[1])
                         /\ ~(k = lcp.n - 1 /\ Len(lcp.spec[j].chronicle.subtasks) > 0)
                      THEN <<[origin |-> OriginRefinement(lcp.open[k + 1][t].instance_id,
                                                          lcp.open[k + 1][t].task_id),
                              from |-> j - 1]>>
                      ELSE <<>>])])
        IN  /\ Len(lcp.open) = lcp.n + 1
            /\ \A k \in 0..(lcp.n - 1) :
                  /\ [i \in 1..Len(created(k)) |->
                         [origin |-> chs[created(k)[i]].origin,
                          from |-> lcp.from[created(k)[i]]]] = expected(k)
                  /\ lcp.open[k + 2]
                        = ConcatAll([i \in 1..Len(created(k)) |->
                                        SubtasksOf(chs[created(k)[i]], created(k)[i] - 1)])
            /\ \A c \in 2..Len(chs) : lcp.round[c] = lcp.n - 1 => Len(chs[c].subtasks) = 0
            /\ lcp.n = 0 => Len(chs) = 1

\* Two rounds: a method with subtasks instantiated in the first round and
\* skipped in the second, where a template without subtasks is instantiated.
C22_Witness ==
    /\ lcp.pc = "populated" /\ lcp.htn_mode
    /\ lcp.n = 2
    /\ \E c, d \in 1..Len(lcp.pb.chronicles) :
          /\ lcp.round[c] = 0 /\ Len(lcp.pb.chronicles[c].subtasks) > 0
          /\ lcp.round[d] = 1 /\ lcp.pb.chronicles[d].origin = OriginRefinement(c - 1, 0)
    /\ \E j \in 1..Len(lcp.spec) :
          /\ Len(lcp.spec[j].chronicle.subtasks) > 0
          /\ \E t \in 1..Len(lcp.open[2]) :
                UnifiableSeq(lcp.pb.model, lcp.open[2][t].task, lcp.spec[j].chronicle.task[1])

\* C23: every instantiation adds to the model one variable per parameter of
\* the template and nothing else: the presence variable of the instance, which
\* is present with the scope of the caller (TRUE for a free action, the
\* presence of the chronicle holding the refined subtask for a refinement),
\* and one variable per other parameter, present with the instance. Every
\* variable of the instance is one of the new ones, none is of the template.
C23_InstantiateScopes ==
    [][Len(lcp'.pb.chronicles) = Len(lcp.pb.chronicles) + 1 =>
          LET chs == lcp'.pb.chronicles
              ch == chs[Len(chs)]
              m == lcp'.pb.model
              template == lcp.spec[lcp'.from[Len(chs)] + 1]
              new == m.vars \ lcp.pb.model.vars
              scope == IF ch.origin.kind = "FreeAction" THEN BTrue
                       ELSE chs[ch.origin.instance_id + 1].presence
          IN  /\ ch.presence.v \in new /\ ch.presence.pos
              /\ m.presence[ch.presence.v] = scope
              /\ Cardinality(new) = Len(template.parameters)
              /\ \A v \in new \ {ch.presence.v} : m.presence[v] = ch.presence
              /\ InstanceVars(ch) \subseteq new
              /\ InstanceVars(ch) \cap TemplateVars(lcp.spec) = {}
              /\ \A v \in lcp.pb.model.vars : m.presence[v] = lcp.pb.model.presence[v]
    ]_vars

\* A refinement of a subtask of an instance: its scope is the presence
\* variable of that instance, and its task argument is a new variable.
C23_Witness ==
    /\ lcp.pc = "populated" /\ lcp.htn_mode
    /\ \E c \in 2..Len(lcp.pb.chronicles) :
          LET ch == lcp.pb.chronicles[c]
              parent == lcp.pb.chronicles[ch.origin.instance_id + 1]
          IN  /\ ch.origin.kind = "Refinement"
              /\ ch.origin.instance_id > 0
              /\ parent.presence # BTrue
              /\ lcp.pb.model.presence[ch.presence.v] = parent.presence
              /\ Len(ch.task) = 1 /\ Len(ch.task[1]) = 2
              /\ lcp.pb.model.presence[ch.task[1][2].var] = ch.presence

\* ---------------------------------------------------------------------------
\* lcp: the main function of the command (planners/src/bin/lcp.rs).

MaxMinDepth == 2
MaxMaxDepth == 3
MaxAttemptedDepth == 4

\* The exit status of the process: main returned Ok, main returned Err, a
\* panic unwound main.
ExitOk == 0
ExitErr == 1
ExitPanic == 101
NotExited == -1

\* Opt: max_depth is None (<<>>) or Some(d) (<<d>>).
MaxDepthOptions == {<<>>} \cup {<<d>> : d \in 0..MaxMaxDepth}

\* for n in opt.min_depth..opt.max_depth.unwrap_or(u32::MAX): n is in the range.
InDepthRange(n, min_depth, max_depth) ==
    n >= min_depth /\ (IF max_depth = <<>> THEN TRUE ELSE n < max_depth[1])

InitMain ==
    /\ SmtOff
    /\ cdcl = Off /\ br = Off /\ mdl = Off /\ bnd = Off /\ vld = Off
    /\ \E min_depth \in 0..MaxMinDepth, max_depth \in MaxDepthOptions,
          no_search \in BOOLEAN, htn \in BOOLEAN :
          lcp = [pc |-> "start", min_depth |-> min_depth, max_depth |-> max_depth,
                 no_search |-> no_search, htn_mode |-> htn, n |-> min_depth,
                 attempted |-> <<>>, result |-> "running", exit_code |-> NotExited]

MainStep(at) ==
    /\ lcp.pc = at
    /\ UNCHANGED <<smtVars, lcpOthers>>
MainExit(res, code) ==
    lcp' = [lcp EXCEPT !.pc = "exit", !.result = res, !.exit_code = code]

\* main: the files exist and are parsed.
MainParsed ==
    /\ MainStep("start")
    /\ lcp' = [lcp EXCEPT !.pc = "loop"]

\* main: ensure!, find_domain_of, from_file, parse_*, pddl_to_chronicles fail.
MainParseError ==
    /\ MainStep("start")
    /\ MainExit("parse_error", ExitErr)

\* main: the body of the loop up to the population of the problem of depth n.
MainPopulate ==
    /\ MainStep("loop")
    /\ InDepthRange(lcp.n, lcp.min_depth, lcp.max_depth)
    /\ lcp' = [lcp EXCEPT !.pc = "populated", !.attempted = @ \o <<lcp.n>>]

\* main with --no-search: propagate_and_print, then break.
MainNoSearchConsistent ==
    /\ MainStep("populated")
    /\ lcp.no_search
    /\ MainExit("consistent", ExitOk)

\* propagate_and_print: panic!("Invalid problem")
MainNoSearchInvalid ==
    /\ MainStep("populated")
    /\ lcp.no_search
    /\ MainExit("invalid", ExitPanic)

\* main: solve returned Some(x), the plan is printed, break.
MainPlanFound ==
    /\ MainStep("populated")
    /\ ~lcp.no_search
    /\ MainExit("plan", ExitOk)

\* main: solve returned None, the next depth.
MainNoPlan ==
    /\ MainStep("populated")
    /\ ~lcp.no_search
    /\ lcp.n < MaxAttemptedDepth
    /\ lcp' = [lcp EXCEPT !.pc = "loop", !.n = @ + 1]

\* solve: the solver returned Err(Exit::Interrupted), which is unwrapped.
MainInterrupted ==
    /\ MainStep("populated")
    /\ ~lcp.no_search
    /\ MainExit("interrupted", ExitPanic)

\* main: the range is exhausted, Ok(()).
MainReturn ==
    /\ MainStep("loop")
    /\ ~InDepthRange(lcp.n, lcp.min_depth, lcp.max_depth)
    /\ MainExit(IF lcp.no_search \/ lcp.attempted = <<>> THEN "nothing" ELSE "no_plan", ExitOk)

NextMain ==
    \/ MainParsed
    \/ MainParseError
    \/ MainPopulate
    \/ MainNoSearchConsistent
    \/ MainNoSearchInvalid
    \/ MainPlanFound
    \/ MainNoPlan
    \/ MainInterrupted
    \/ MainReturn
SpecMain == InitMain /\ [][NextMain]_vars

\* C24 as stated: the command exits with code 0 when a plan is found or the
\* propagation of --no-search is consistent, with code 2 when no plan exists
\* within the allowed depths, with code 3 when the solver is interrupted.
C24_ExitCodes ==
    lcp.pc = "exit" =>
        /\ lcp.result \in {"plan", "consistent"} => lcp.exit_code = 0
        /\ lcp.result = "no_plan" => lcp.exit_code = 2
        /\ lcp.result = "interrupted" => lcp.exit_code = 3

\* C25 as stated: without --no-search the depths attempted are min_depth,
\* min_depth + 1, ... in this order; the last one is the first with a plan,
\* and without a plan every depth up to and including max_depth is attempted.
C25_DepthsUpToMax ==
    (lcp.pc = "exit" /\ ~lcp.no_search /\ lcp.result \in {"plan", "no_plan", "nothing"}) =>
        /\ \A i \in 1..Len(lcp.attempted) : lcp.attempted[i] = lcp.min_depth + i - 1
        /\ lcp.result = "plan" => lcp.attempted[Len(lcp.attempted)] = lcp.n
        /\ (lcp.result # "plan" /\ lcp.max_depth # <<>> /\ lcp.min_depth <= lcp.max_depth[1])
              => Len(lcp.attempted) = lcp.max_depth[1] - lcp.min_depth + 1

\* ---------------------------------------------------------------------------
\* Solver::solve: the search of _solve, whose result solve wraps.

MaxSolveSignals == 3

InitSolve ==
    /\ InitCommon(BOOLEAN, AllowedConflictsChoices)
    /\ pc = "poll"
    /\ cdcl = Off /\ br = Off /\ mdl = Off /\ lcp = Off /\ bnd = Off /\ vld = Off

\* Another worker puts a signal on the input channel of the solver.
SolveDeliver ==
    /\ pc \notin {"api", "done"}
    /\ delivered < MaxSolveSignals
    /\ \E m \in ExternalSignalsOf[problem] : signals' = Append(signals, m)
    /\ delivered' = delivered + 1
    /\ UNCHANGED <<solver, output, pc, best, cur, conflict, result, callbacks, recorded,
                   obtained, apiVars, problem, unpropagated, otherVars>>

SolveExternalSolution_DrainsChannel ==
    /\ SearchStep("poll")
    /\ signals # <<>>
    /\ LET h == HandleSignal(solver, Head(signals))
       IN  /\ h.ret = "ExternalSolution"
           /\ solver' = h.s
    /\ signals' = <<>>
    /\ result' = OkResult([some |-> TRUE, sol |-> Head(signals).assignment])
    /\ obtained' = Append(obtained, [from |-> "external"])
    /\ pc' = "done"
    /\ UNCHANGED <<output, best, cur, conflict, callbacks, recorded, unpropagated>>

\* _solve, loop top: try_recv returns SolutionFound(assignment); _solve returns
\* ExternalSolution(assignment) and solve returns Ok(Some(assignment)).
SolveExternalSolution ==
    /\ SearchStep("poll")
    /\ signals # <<>>
    /\ LET h == HandleSignal(solver, Head(signals))
       IN  /\ h.ret = "ExternalSolution"
           /\ solver' = h.s
    /\ signals' = Tail(signals)
    /\ result' = OkResult([some |-> TRUE, sol |-> Head(signals).assignment])
    /\ obtained' = Append(obtained, [from |-> "external"])
    /\ pc' = "done"
    /\ UNCHANGED <<output, best, cur, conflict, callbacks, recorded, unpropagated>>

\* _solve: no decision is left, _solve returns AtSolution and solve returns a
\* copy of the model.
SolveAtSolution ==
    /\ SearchStep("decide")
    /\ \E o \in BrNextDecision(solver.brancher, solver.stats, solver.model) :
          /\ o.dec.kind = "None"
          /\ solver' = [solver EXCEPT !.brancher = o.b]
    /\ result' = OkResult([some |-> TRUE, sol |-> solver.model.lb])
    /\ obtained' = Append(obtained, [from |-> "local"])
    /\ pc' = "done"
    /\ UNCHANGED <<signals, output, best, cur, conflict, callbacks, recorded, unpropagated>>

SolveNext ==
    \/ PollInterrupted \/ PollContinue \/ SolveExternalSolution \/ PollEmpty
    \/ PropagateOk \/ PropagateConflict \/ LearnAndBacktrack \/ ReturnUnsat
    \/ Decide \/ DoRestart \/ SolveAtSolution
NextSolve == SolveDeliver \/ SolveNext
SpecSolve == InitSolve /\ [][NextSolve]_vars

\* C26: a solver inside solve() that finds SolutionFound(assignment) at the
\* head of its channel when it polls returns Ok(Some(assignment)) without any
\* change to its own state; messages leave the channel in the order they
\* were queued, at a poll only, and those queued after the solution stay.
C26_ExternalSolutionReturned ==
    [][/\ Len(signals') < Len(signals) => (pc = "poll" /\ signals' = Tail(signals))
       /\ (Len(signals') < Len(signals) /\ Head(signals).kind = "SolutionFound") =>
             /\ result' = OkResult([some |-> TRUE, sol |-> Head(signals).assignment])
             /\ pc' = "done"
             /\ solver' = solver
       /\ pc = "done" => signals' = signals]_vars

\* The solution was read after a learned clause and a decision, and the
\* message queued after it is still in the channel.
C26_Witness ==
    /\ pc = "done"
    /\ result.kind = "Ok"
    /\ obtained = <<[from |-> "external"]>>
    /\ delivered = 3
    /\ Len(signals) = 1
    /\ solver.stats.num_decisions > 0

\* ---------------------------------------------------------------------------
\* The time model of the plan validator (validator/src/models/time.rs).

MaxHalves == 4
GlobalEndHalves == 4

\* Rational: a fraction in lowest terms with a positive denominator.
RECURSIVE RatGcd(_, _)
RatGcd(a, b) == IF b = 0 THEN a ELSE RatGcd(b, a % b)
Rat(n, d) == LET g == RatGcd(IF n < 0 THEN -n ELSE n, d)
             IN  IF n = 0 THEN [num |-> 0, den |-> 1] ELSE [num |-> n \div g, den |-> d \div g]
RatAdd(a, b) == Rat(a.num * b.den + b.num * a.den, a.den * b.den)
RatLeq(a, b) == a.num * b.den <= b.num * a.den
Halves(k) == Rat(k, 2)

\* Timepoint::new, Timepoint::fixed
Timepoint(kind, delay) == [kind |-> kind, delay |-> delay]
TimepointFixed(instant) == Timepoint("GlobalStart", instant)

\* Timepoint::eval: container is <<>> (None) or <<c>> (Some(c)); the start
\* and the end of a container are evaluated without container.
RECURSIVE TimepointEval(_, _, _)
TimepointEval(tp, container, global_end) ==
    LET b == CASE tp.kind = "GlobalStart" -> Rat(0, 1)
               [] tp.kind = "GlobalEnd" -> global_end
               [] tp.kind = "Start" ->
                     IF container # <<>>
                     THEN TimepointEval(container[1].start, <<>>, global_end)
                     ELSE Rat(0, 1)
               [] tp.kind = "End" ->
                     IF container # <<>>
                     THEN TimepointEval(container[1].end, <<>>, global_end)
                     ELSE global_end
    IN  RatAdd(b, tp.delay)

\* TemporalInterval::new
TemporalInterval(start, end, is_start_open, is_end_open) ==
    [start |-> start, end |-> end, is_start_open |-> is_start_open,
     is_end_open |-> is_end_open]

TemporalIntervalContains_EndClosed(i, timepoint, container, global_end) ==
    LET start == TimepointEval(i.start, container, global_end)
        end == TimepointEval(i.end, container, global_end)
    IN  IF start = timepoint /\ i.is_start_open THEN FALSE
        ELSE RatLeq(start, timepoint) /\ RatLeq(timepoint, end)

\* TemporalInterval::contains
TemporalIntervalContains(i, timepoint, container, global_end) ==
    LET start == TimepointEval(i.start, container, global_end)
        end == TimepointEval(i.end, container, global_end)
    IN  IF (start = timepoint /\ i.is_start_open) \/ (end = timepoint /\ i.is_end_open)
        THEN FALSE
        ELSE RatLeq(start, timepoint) /\ RatLeq(timepoint, end)

TimepointKinds == {"GlobalStart", "GlobalEnd", "Start", "End"}
Timepoints == {Timepoint(k, Halves(d)) : k \in TimepointKinds, d \in {0, 1, 2}}
\* No container, or an action from 1/2 to 3/2.
Containers ==
    {<<>>, <<[start |-> TimepointFixed(Halves(1)), end |-> TimepointFixed(Halves(3))]>>}
vldOthers == <<cdcl, br, mdl, lcp, bnd>>

InitVld ==
    /\ SmtOff
    /\ cdcl = Off /\ br = Off /\ mdl = Off /\ lcp = Off /\ bnd = Off
    /\ \E start, end \in Timepoints, so, eo \in BOOLEAN, container \in Containers,
          t \in 0..(GlobalEndHalves + MaxHalves) :
          vld = [pc |-> "new", i |-> TemporalInterval(start, end, so, eo),
                 container |-> container, global_end |-> Halves(GlobalEndHalves),
                 timepoint |-> Halves(t), result |-> FALSE]

\* i.contains(timepoint, container, global_end)
VldContains ==
    /\ vld.pc = "new"
    /\ vld' = [vld EXCEPT !.pc = "contains",
                          !.result = TemporalIntervalContains(vld.i, vld.timepoint,
                                                              vld.container, vld.global_end)]
    /\ UNCHANGED <<smtVars, vldOthers>>

NextVld == VldContains
SpecVld == InitVld /\ [][NextVld]_vars

\* C27: contains(t) is true exactly when start <= t <= end, t is not an open
\* start and t is not an open end; an interval with start = end and an open
\* end contains no timepoint.
C27_Contains ==
    vld.pc = "contains" =>
        LET s == TimepointEval(vld.i.start, vld.container, vld.global_end)
            e == TimepointEval(vld.i.end, vld.container, vld.global_end)
            t == vld.timepoint
        IN  /\ vld.result <=> (/\ RatLeq(s, t) /\ RatLeq(t, e)
                               /\ ~(t = s /\ vld.i.is_start_open)
                               /\ ~(t = e /\ vld.i.is_end_open))
            /\ (s = e /\ (vld.i.is_start_open \/ vld.i.is_end_open)) => ~vld.result

\* The degenerate interval [t, t) asked for t.
C27_Witness ==
    /\ vld.pc = "contains"
    /\ TimepointEval(vld.i.start, vld.container, vld.global_end) = vld.timepoint
    /\ TimepointEval(vld.i.end, vld.container, vld.global_end) = vld.timepoint
    /\ ~vld.i.is_start_open /\ vld.i.is_end_open
    /\ vld.i.start.kind # vld.i.end.kind
    /\ vld.timepoint.den = 2
    /\ ~vld.result

\* ---------------------------------------------------------------------------
\* Solver::add_conflicting_clause_and_backtrack called on a violated clause,
\* after decisions and propagations.

MaxClauseLen == 3

\* The clauses of the literals of the model that are violated.
ViolatedClauses(d) ==
    {c \in SUBSET DecidableLits :
        Cardinality(c) <= MaxClauseLen /\ ValueOfClause(d, c) = "false"}

InitConf ==
    /\ InitCommon({TRUE}, {DefaultAllowedConflicts})
    /\ pc = "api"
    /\ cdcl = Off /\ br = Off /\ mdl = Off /\ lcp = Off /\ bnd = Off /\ vld = Off

\* add_conflicting_clause_and_backtrack(expl); cur records what it returned.
ConfAddConflictingClause ==
    /\ pc = "api"
    /\ ~solver.panicked
    /\ nops < MaxOps
    /\ nops' = nops + 1
    /\ lastOp' = "add_conflicting_clause_and_backtrack"
    /\ preLevel' = solver.decision_level
    /\ \E expl \in ViolatedClauses(solver.model) :
          \E r \in AddConflictingClauseAndBacktrack(solver, expl) :
             /\ solver' = r.s
             /\ conflict' = expl
             /\ cur' = [kind |-> "returned", ok |-> r.ok]
             /\ hist' = IF r.ok THEN KeepLevels(hist, r.s.decision_level) ELSE hist
    /\ UNCHANGED <<signals, output, pc, best, result, callbacks, recorded, obtained,
                   delivered, problem, unpropagated, otherVars>>

NextConf == BtDecide \/ BtPropagate \/ ConfAddConflictingClause
SpecConf == InitConf /\ [][NextConf]_vars

\* The orders in which the literals of a clause may come.
Orders(clause) ==
    {q \in [1..Cardinality(clause) -> clause] : \A i, j \in DOMAIN q : q[i] = q[j] => i = j}

\* C28: for every violated clause of up to three literals and every order of
\* its literals, with M the highest level at which one of its literals was
\* falsified: no level is returned exactly when M = 0; otherwise the
\* second-highest level of the literals when a single literal was falsified
\* at level M, and M - 1 when two or more were.
C28_BacktrackLevel ==
    \A c \in ViolatedClauses(solver.model) :
       \A q \in Orders(c) :
          LET r == BacktrackLevelForSlice(solver.model, q)
              M == Maximum({LitLevel(solver.model, l) : l \in c})
              atM == {l \in c : LitLevel(solver.model, l) = M}
          IN  /\ r.some <=> M > 0
              /\ (M > 0 /\ Cardinality(atM) = 1) =>
                    r.lvl = Maximum({LitLevel(solver.model, l) : l \in c \ atM})
              /\ (M > 0 /\ Cardinality(atM) >= 2) => r.lvl = M - 1

\* A clause with one literal falsified at level 2 and one at level 1, in a
\* state where another clause has its two literals falsified at level 2 and a
\* third one has a literal of level 1 besides two of level 2.
C28_Witness ==
    /\ solver.decision_level = 2
    /\ \E c \in ViolatedClauses(solver.model) :
          /\ Cardinality(c) = 2
          /\ {LitLevel(solver.model, l) : l \in c} = {1, 2}
          /\ BacktrackLevelForClause(solver.model, c) = [some |-> TRUE, lvl |-> 1]
    /\ \E c \in ViolatedClauses(solver.model) :
          /\ Cardinality(c) = 2
          /\ {LitLevel(solver.model, l) : l \in c} = {2}
          /\ BacktrackLevelForClause(solver.model, c) = [some |-> TRUE, lvl |-> 1]
    /\ \E c \in ViolatedClauses(solver.model) :
          /\ Cardinality(c) = 3
          /\ Cardinality({l \in c : LitLevel(solver.model, l) = 2}) = 2
          /\ Cardinality({l \in c : LitLevel(solver.model, l) = 1}) = 1

\* C29: when add_conflicting_clause_and_backtrack finds a level, the solver
\* is restored to that level, where the clause is neither violated nor
\* satisfied, and the clause is among those of the SAT engine; when it finds
\* none, nothing is restored and the clause is not added.
C29_ClauseUndeterminedWhenAdded ==
    [][lastOp' = "add_conflicting_clause_and_backtrack" /\ nops' # nops =>
          LET dl == BacktrackLevelForClause(solver.model, conflict')
          IN  /\ cur'.ok = dl.some
              /\ dl.some =>
                    /\ ~solver'.panicked
                    /\ solver'.decision_level = dl.lvl
                    /\ DomNumSaved(solver'.model) = dl.lvl
                    /\ ValueOfClause(solver'.model, conflict') = None
                    /\ \E l \in conflict' : ~Entails(solver'.model, Not(l))
                    /\ \A l \in conflict' : ~Entails(solver'.model, l)
                    /\ conflict' \in solver'.sat.clauses
              /\ ~dl.some => solver' = solver]_vars

\* A clause falsified at the levels 1 and 2 was added after the restoration
\* to level 1, where its literal of level 2 is unassigned.
C29_Witness ==
    /\ lastOp = "add_conflicting_clause_and_backtrack"
    /\ preLevel = 2
    /\ solver.decision_level = 1
    /\ cur = [kind |-> "returned", ok |-> TRUE]
    /\ Cardinality(conflict) = 2
    /\ conflict \in solver.sat.clauses
    /\ conflict \notin problem
    /\ \E l \in conflict : Entails(solver.model, Not(l))
    /\ ValueOfClause(solver.model, conflict) = None

\* ---------------------------------------------------------------------------
\* Solver::process_bindings: a Solver at the root level whose model receives
\* bindings (model.bind, model.bind_literals) and constraints (enforce).

\* Theories registered with add_theory.
MaxTheories == 2
\* Bindings recorded in the model during one run.
MaxBindings == 2

\* Boolean variables of the model; "zero" is VarRef::ZERO, whose domain is
\* [0, 0], so that Lit::TRUE is (zero >= 0).
BindBools == {"p", "q"}
BindLitTrue == Geq("zero", 0)
BindLits == UNION {{Geq(v, 1), Leq(v, 0)} : v \in BindBools}
\* Root domains: each Boolean is true, false or unset.
BindDomains ==
    {[lb |-> [v \in BindBools \cup {"zero"} |-> IF v = "zero" THEN 0 ELSE f[v][1]],
      ub |-> [v \in BindBools \cup {"zero"} |-> IF v = "zero" THEN 0 ELSE f[v][2]],
      trail |-> <<>>, saved |-> <<>>] :
        f \in [BindBools -> {<<0, 1>>, <<1, 1>>, <<0, 0>>}]}

\* Expressions by the reasoner that handles them: the disjunction or(p, q), the
\* difference constraint p <= q, and a product that no registered reasoner
\* handles.
BindExprs == {"or", "leq", "mul"}
LiteralTarget(rlit) == [kind |-> "Literal", rlit |-> rlit]
ExprTarget(expr) == [kind |-> "Expr", expr |-> expr]
BindTargets == {LiteralTarget(l) : l \in BindLits \cup {BindLitTrue}}
                   \cup {ExprTarget(e) : e \in BindExprs}

\* SatSolver::bind: the SAT reasoner encodes disjunctions.
SatBind(expr) == IF expr = "or" THEN {"Enforced"} ELSE {"Unsupported"}
\* Theory::bind of a difference-logic theory: it takes difference
\* constraints, recording them or rewriting them.
TheoryBind(theory, expr) ==
    IF theory.kind = "stn" /\ expr = "leq" THEN {"Enforced", "Refined"} ELSE {"Unsupported"}

\* A difference-logic theory: enablers are the literals its constraint p <= q
\* was bound to.
NewStnTheory == [kind |-> "stn", enablers |-> {}]

\* What the reasoners keep of a binding they claimed: the SAT engine the
\* clauses of llit <=> or(p, q), a theory the literal enabling p <= q.
OrClauses(llit) ==
    {{Not(llit), Geq("p", 1), Geq("q", 1)}, {llit, Leq("p", 0)}, {llit, Leq("q", 0)}}
Claimed(s, llit, answers) ==
    [s EXCEPT !.clauses = IF answers[1] # "Unsupported" THEN @ \cup OrClauses(llit) ELSE @,
              !.theories = [i \in DOMAIN @ |->
                               IF answers[i + 1] # "Unsupported"
                               THEN [@[i] EXCEPT !.enablers = @ \cup {llit}]
                               ELSE @[i]]]

\* The answers of the reasoners to one expression, SAT first, then the
\* theories in registration order.
RECURSIVE TheoriesBind(_, _)
TheoriesBind(theories, expr) ==
    IF theories = <<>> THEN {<<>>}
    ELSE {<<r>> \o rest : r \in TheoryBind(Head(theories), expr),
                          rest \in TheoriesBind(Tail(theories), expr)}
ReasonersBind(s, expr) ==
    {<<r>> \o rest : r \in SatBind(expr), rest \in TheoriesBind(s.theories, expr)}

\* supported: some reasoner answered Enforced or Refined.
Supported(answers) == \E i \in DOMAIN answers : answers[i] # "Unsupported"

SetTautology(s, lit) == [s EXCEPT !.pending_tautologies = Append(@, lit)]

\* BindTarget::Literal(rlit)
BindLiteral(s, llit, rlit) ==
    IF Entails(s.model, llit) THEN SetTautology(s, rlit)
    ELSE IF Entails(s.model, Not(llit)) THEN SetTautology(s, Not(rlit))
    ELSE IF Entails(s.model, rlit) THEN SetTautology(s, llit)
    ELSE IF Entails(s.model, Not(rlit)) THEN SetTautology(s, Not(llit))
    ELSE [s EXCEPT !.clauses = @ \cup {{Not(llit), rlit}, {Not(rlit), llit}}]

\* BindTarget::Expr(expr): the outcomes, one for each combination of answers.
\* offered records the binding and the answers it got.
BindExpr(s, llit, expr) ==
    {[Claimed(s, llit, a) EXCEPT
          !.offered = Append(@, [llit |-> llit, expr |-> expr, answers |-> a]),
          !.pc = IF Supported(a) THEN @ ELSE "panicked"] :
        a \in ReasonersBind(s, expr)}

\* process_bindings: drains the queue from the cursor; a panic ends it. Each
\* binding popped is asserted to be handled at the root level.
RECURSIVE ProcessBindings(_)
ProcessBindings(s) ==
    IF s.pc = "panicked" \/ s.next_binding > Len(s.bindings) THEN {s}
    ELSE IF DomNumSaved(s.model) # 0
    THEN {[s EXCEPT !.next_binding = @ + 1, !.pc = "panicked"]}
    ELSE LET b == s.bindings[s.next_binding]
             popped == [s EXCEPT !.next_binding = @ + 1]
         IN  IF b.target.kind = "Literal"
             THEN ProcessBindings(BindLiteral(popped, b.llit, b.target.rlit))
             ELSE UNION {ProcessBindings(t) : t \in BindExpr(popped, b.llit, b.target.expr)}

\* Model::bind(expr, literal) and Model::bind_literals(l1, l2)
ShapeBind(s, llit, target) ==
    [s EXCEPT !.bindings = Append(@, [llit |-> llit, target |-> target])]

\* Model::enforce: a literal is bound to Lit::TRUE, an expression is bound
\* by Lit::TRUE.
SolverModelEnforce(s, b) ==
    IF b.kind = "Literal" THEN ShapeBind(s, b.rlit, LiteralTarget(BindLitTrue))
    ELSE ShapeBind(s, BindLitTrue, b)

\* Solver::enforce: asserts the root level, records the constraint in the
\* model and processes the bindings.
SolverEnforce(s, b) ==
    IF DomNumSaved(s.model) # 0 THEN {[s EXCEPT !.pc = "panicked"]}
    ELSE ProcessBindings(SolverModelEnforce(s, b))

bndOthers == <<cdcl, br, mdl, lcp, vld>>

\* Calls made on the solver and its model during one run.
MaxCalls == 4
Calls(s) == s.nops + Len(s.theories) + Len(s.bindings)

\* What the last call on the solver was and what it returned.
NoCall == [op |-> "new", ok |-> TRUE, clause |-> {}]
Called(s, op) == [s EXCEPT !.last = [op |-> op, ok |-> TRUE, clause |-> {}]]

InitBind ==
    /\ SmtOff
    /\ cdcl = Off /\ br = Off /\ mdl = Off /\ lcp = Off /\ vld = Off
    /\ \E d \in BindDomains, debug \in BOOLEAN :
          bnd = [pc |-> "root", model |-> d, theories |-> <<>>, bindings |-> <<>>,
                 next_binding |-> 1, pending_tautologies |-> <<>>, clauses |-> {},
                 offered |-> <<>>, debug_assertions |-> debug, nops |-> 0,
                 last |-> NoCall, rounds |-> <<>>]

\* solver.add_theory(..)
BindAddTheory ==
    /\ bnd.pc = "root"
    /\ Calls(bnd) < MaxCalls
    /\ Len(bnd.theories) < MaxTheories
    /\ bnd' = Called([bnd EXCEPT !.theories = Append(@, NewStnTheory)], "add_theory")
    /\ UNCHANGED <<smtVars, bndOthers>>

\* solver.model.bind(..) or solver.model.bind_literals(..): recorded, not yet
\* processed.
BindModelBind ==
    /\ bnd.pc = "root"
    /\ Calls(bnd) < MaxCalls
    /\ Len(bnd.bindings) < MaxBindings
    /\ \E llit \in BindLits, target \in BindTargets :
          bnd' = Called(ShapeBind(bnd, llit, target), "bind")
    /\ UNCHANGED <<smtVars, bndOthers>>

\* solver.enforce(b)
BindEnforce ==
    /\ bnd.pc = "root"
    /\ Calls(bnd) < MaxCalls
    /\ Len(bnd.bindings) < MaxBindings
    /\ \E b \in BindTargets : bnd' \in SolverEnforce(Called(bnd, "enforce"), b)
    /\ UNCHANGED <<smtVars, bndOthers>>

NextBind == BindAddTheory \/ BindModelBind \/ BindEnforce
SpecBind == InitBind /\ [][NextBind]_vars

\* The reasoners that claimed the i-th expression offered.
Claimers(i) ==
    {j \in DOMAIN bnd.offered[i].answers : bnd.offered[i].answers[j] # "Unsupported"}

\* C30: every expression binding offered to the reasoners is claimed
\* (Enforced or Refined) by exactly one of them, the SAT engine or a theory;
\* when none claims it the coordinator has aborted.
C30_ExactlyOneClaims ==
    bnd.pc # "off" =>
        \A i \in 1..Len(bnd.offered) :
            \/ Cardinality(Claimers(i)) = 1
            \/ Cardinality(Claimers(i)) = 0 /\ bnd.pc = "panicked"

\* ---------------------------------------------------------------------------
\* Solver::propagate, decide and restore on the solver of SpecBind.

\* Calls of decide, propagate and restore during one run.
MaxPropOps == 3

\* TheorySolver::process of a difference-logic theory with p <= q enabled:
\* p true makes q true, q false makes p false, p true and q false is a
\* contradiction.
TheoryProcess(theory, d) ==
    IF ~\E e \in theory.enablers : Entails(d, e) THEN [d |-> d, ok |-> TRUE]
    ELSE IF Entails(d, Geq("p", 1)) /\ Entails(d, Leq("q", 0)) THEN [d |-> d, ok |-> FALSE]
    ELSE IF Entails(d, Geq("p", 1))
         THEN [d |-> DomSet(d, Geq("q", 1), "inference").d, ok |-> TRUE]
    ELSE IF Entails(d, Leq("q", 0))
         THEN [d |-> DomSet(d, Leq("p", 0), "inference").d, ok |-> TRUE]
    ELSE [d |-> d, ok |-> TRUE]

\* refine_explanation / clause_for_invalid_update: the negated decisions of
\* the trail.
RefinedClause(d) == {Not(l) : l \in Decisions(d)}

\* for i in 0..theories.len(): called lists the reasoners propagated in the
\* round, 0 being the SAT engine.
RECURSIVE PropagateTheories(_, _, _)
PropagateTheories(s, i, called) ==
    IF i > Len(s.theories) THEN [s |-> s, ok |-> TRUE, called |-> called]
    ELSE LET r == TheoryProcess(s.theories[i], s.model)
             s1 == [s EXCEPT !.model = r.d]
         IN  IF r.ok THEN PropagateTheories(s1, i + 1, Append(called, i))
             ELSE [s |-> s1, ok |-> FALSE, called |-> Append(called, i)]

\* propagate_again, without the second round when no event was added
PropagateAgain_Never(num_events_at_start, s) == FALSE

\* propagate_again
PropagateAgain(num_events_at_start, s) ==
    num_events_at_start < Len(s.model.trail) /\ s.theories # <<>>

\* The loop of propagate. A round is recorded with the number of events at
\* its start and end, the reasoners it propagated and how it ended.
RECURSIVE PropagateLoop(_, _)
PropagateLoop(s, rounds) ==
    LET num_events_at_start == Len(s.model.trail)
        sat == SatPropagate(s.model, s.clauses)
        s1 == [s EXCEPT !.model = sat.d]
        Round(called, d, res) ==
            [start |-> num_events_at_start, called |-> called,
             end |-> Len(d.trail), res |-> res]
    IN  IF ~sat.ok
        THEN [s |-> s1, ok |-> FALSE, clause |-> RefinedClause(sat.d),
              rounds |-> Append(rounds, Round(<<0>>, sat.d, "sat conflict"))]
        ELSE LET th == PropagateTheories(s1, 1, <<0>>)
             IN  IF ~th.ok
                 THEN [s |-> th.s, ok |-> FALSE, clause |-> RefinedClause(th.s.model),
                       rounds |-> Append(rounds, Round(th.called, th.s.model, "theory conflict"))]
                 ELSE IF PropagateAgain(num_events_at_start, th.s)
                 THEN PropagateLoop(th.s, Append(rounds, Round(th.called, th.s.model, "ok")))
                 ELSE [s |-> th.s, ok |-> TRUE, clause |-> {},
                       rounds |-> Append(rounds, Round(th.called, th.s.model, "ok"))]

\* while let Some(lit) = self.pending_tautologies.pop(): the literals are set
\* from the last one queued; a literal that cannot be set ends propagate.
\* Above the root level a build with debug assertions panics.
RECURSIVE ProcessTautologies(_)
ProcessTautologies(s) ==
    IF s.pending_tautologies = <<>> THEN [s |-> s, ok |-> TRUE]
    ELSE LET n == Len(s.pending_tautologies)
             lit == s.pending_tautologies[n]
             popped == [s EXCEPT !.pending_tautologies = SubSeq(@, 1, n - 1)]
             r == DomSet(s.model, lit, "decision")
         IN  IF s.debug_assertions /\ DomNumSaved(s.model) # 0
             THEN [s |-> [popped EXCEPT !.pc = "panicked"], ok |-> FALSE]
             ELSE IF r.res = "contradiction" THEN [s |-> popped, ok |-> FALSE]
             ELSE ProcessTautologies([popped EXCEPT !.model = r.d])

\* Solver::propagate, after process_bindings left the solver in state s
PropagateAfterBindings(s) ==
    IF s.pc = "panicked" THEN s
    ELSE LET t == ProcessTautologies(s)
         IN  IF ~t.ok
             THEN [t.s EXCEPT !.last = [op |-> "propagate", ok |-> FALSE, clause |-> {}],
                              !.rounds = <<>>]
             ELSE LET r == PropagateLoop(t.s, <<>>)
                  IN  [r.s EXCEPT !.last = [op |-> "propagate", ok |-> r.ok, clause |-> r.clause],
                                  !.rounds = r.rounds]

\* Solver::propagate: the outcomes.
PropagateFully(s) == {PropagateAfterBindings(t) : t \in ProcessBindings(s)}

\* Solver::decide: save_state, then the decision must modify the domain.
PropDecideLit(s, decision) ==
    LET saved == [s EXCEPT !.model = DomSaveState(@)]
        r == DomSet(saved.model, decision, "decision")
    IN  IF r.res = "modified" THEN [saved EXCEPT !.model = r.d]
        ELSE [saved EXCEPT !.pc = "panicked"]

PropStep(op) ==
    /\ bnd.pc = "root"
    /\ Calls(bnd) < MaxCalls
    /\ bnd.nops < MaxPropOps
    /\ UNCHANGED <<smtVars, bndOthers>>

\* solver.propagate()
PropPropagate ==
    /\ PropStep("propagate")
    /\ bnd' \in PropagateFully([bnd EXCEPT !.nops = @ + 1])

\* solver.decide(lit)
PropDecide ==
    /\ PropStep("decide")
    /\ \E lit \in BindLits :
          bnd' = PropDecideLit(Called([bnd EXCEPT !.nops = @ + 1], "decide"), lit)

\* solver.restore(saved_id): the clauses and the constraints of the reasoners
\* were recorded at the root level and stay.
PropRestore ==
    /\ PropStep("restore")
    /\ \E saved_id \in 0..(DomNumSaved(bnd.model) - 1) :
          bnd' = Called([bnd EXCEPT !.nops = @ + 1,
                                    !.model = DomRestore(@, saved_id)], "restore")

NextProp == NextBind \/ PropPropagate \/ PropDecide \/ PropRestore
SpecProp == InitBind /\ [][NextProp]_vars

\* C31: a propagate that returns Ok(()) ended with a full round (the SAT engine,
\* then every theory in order) that added no event to the trail, unless the
\* solver has no theory; a round in which the SAT engine reported a conflict
\* propagated no theory, is the last one, and propagate returned the clause.
C31_PropagateRounds ==
    (bnd.pc = "root" /\ bnd.last.op = "propagate" /\ bnd.rounds # <<>>) =>
        LET n == Len(bnd.rounds)
            lastRound == bnd.rounds[n]
        IN  /\ bnd.last.ok =>
                /\ lastRound.res = "ok"
                /\ lastRound.called = [i \in 1..(Len(bnd.theories) + 1) |-> i - 1]
                /\ lastRound.end = lastRound.start \/ bnd.theories = <<>>
            /\ \A i \in 1..n :
                  bnd.rounds[i].res = "sat conflict" =>
                      /\ bnd.rounds[i].called = <<0>>
                      /\ i = n
                      /\ ~bnd.last.ok
                      /\ bnd.last.clause = RefinedClause(bnd.model)

\* A propagate of two rounds: the theory added an event in the first one.
C31_Witness ==
    /\ bnd.pc = "root" /\ bnd.last.op = "propagate" /\ bnd.last.ok
    /\ Len(bnd.theories) = 2
    /\ Len(bnd.rounds) = 2
    /\ bnd.rounds[1].end > bnd.rounds[1].start
    /\ bnd.rounds[2].end = bnd.rounds[2].start
    /\ bnd.rounds[2].called = <<0, 1, 2>>

\* value_of_literal: "true", "false" or None.
LitValue(d, l) ==
    IF Entails(d, l) THEN "true" ELSE IF Entails(d, Not(l)) THEN "false" ELSE None

\* The literal bindings that process_bindings handled.
HandledLiteralBindings ==
    {i \in 1..(bnd.next_binding - 1) : bnd.bindings[i].target.kind = "Literal"}

\* C32: in a state reached by a successful propagate, the two literals of
\* every literal binding handled by process_bindings have the same truth
\* value.
C32_BoundLiteralsAgree ==
    (bnd.pc = "root" /\ bnd.last.op = "propagate" /\ bnd.last.ok) =>
        \A i \in HandledLiteralBindings :
            LitValue(bnd.model, bnd.bindings[i].llit)
                = LitValue(bnd.model, bnd.bindings[i].target.rlit)

\* C33: whenever the queue of pending tautologies is not empty, the solver is
\* at the root decision level.
C33_PendingTautologiesAtRoot ==
    (bnd.pc = "root" /\ bnd.pending_tautologies # <<>>) => DomNumSaved(bnd.model) = 0

\* ---------------------------------------------------------------------------
\* Writer ids: ModelShape::new_write_token, the registration of the reasoners
\* of a Solver and Reasoners::explain.

\* Tokens the model handed out before the solver is built.
MaxPriorTokens == 257
\* Tokens asked directly from the model once the solver is built.
MaxExternalTokens == 2
\* u8
U8Max == 255
\* identities: [u8; 255], filled with 255
IdentitiesLen == 255
Unregistered == 255

\* new_write_token: num_writers += 1 overflows at 255 (a panic with overflow
\* checks, a wrap to 0 without); the id is num_writers - 1 on u8.
NewWriteToken(s) ==
    IF s.num_writers = U8Max /\ s.debug_assertions
    THEN [s |-> [s EXCEPT !.pc = "panicked"], id |-> 0]
    ELSE LET n == (s.num_writers + 1) % (U8Max + 1)
             id == (n + U8Max) % (U8Max + 1)
         IN  [s |-> [s EXCEPT !.num_writers = n, !.calls = @ + 1,
                              !.tokens = Append(@, [k |-> s.calls + 1, id |-> id])],
              id |-> id]

\* self.identities[id] = v: an index out of the array panics.
SetIdentity(s, id, v) ==
    IF id >= IdentitiesLen THEN [s EXCEPT !.pc = "panicked"]
    ELSE [s EXCEPT !.identities[id] = v]

\* Solver::new -> Reasoners::new(sat, sat_id)
WriterSolverNew(s) ==
    LET t == NewWriteToken(s)
    IN  IF t.s.pc = "panicked" THEN t.s
        ELSE SetIdentity([t.s EXCEPT !.pc = "solver", !.sat_id = t.id], t.id, 0)

\* Solver::add_theory -> Reasoners::add_theory: the theory's identity is the
\* token it was built with.
WriterAddTheory(s) ==
    LET t == NewWriteToken(s)
    IN  IF t.s.pc = "panicked" THEN t.s
        ELSE LET r == SetIdentity(t.s, t.id, (Len(s.theories) % (U8Max + 1)) + 1)
             IN  IF r.pc = "panicked" THEN r
                 ELSE [r EXCEPT !.theories = Append(@, t.id)]

\* Who explains a cause: the SAT engine, the theory at a position, or nobody
\* (an index out of bounds panics).
BySat == [by |-> "sat"]
ByTheory(i) == [by |-> "theory", position |-> i]
ExplainPanics == [by |-> "panic"]

\* Reasoners::explain: the reasoner asked; an index out of identities or out of
\* theories panics.
ReasonersExplain(s, writer) ==
    IF writer >= IdentitiesLen THEN ExplainPanics
    ELSE LET internal_id == s.identities[writer]
         IN  IF internal_id = 0 THEN BySat
             ELSE IF internal_id - 1 < Len(s.theories) THEN ByTheory(internal_id)
             ELSE ExplainPanics

\* A model that handed out n tokens: a build with overflow checks cannot get
\* past 255.
InitWr ==
    /\ SmtOff
    /\ cdcl = Off /\ br = Off /\ mdl = Off /\ lcp = Off /\ vld = Off
    /\ \E n \in 0..MaxPriorTokens, debug \in BOOLEAN :
          /\ debug => n <= U8Max
          /\ bnd = [pc |-> "model", debug_assertions |-> debug,
                    num_writers |-> n % (U8Max + 1), calls |-> n, tokens |-> <<>>,
                    identities |-> [i \in 0..(IdentitiesLen - 1) |-> Unregistered],
                    sat_id |-> -1, theories |-> <<>>, external |-> 0,
                    explained |-> <<>>]

\* Solver::new(model)
WrSolverNew ==
    /\ bnd.pc = "model"
    /\ bnd' = WriterSolverNew(bnd)
    /\ UNCHANGED <<smtVars, bndOthers>>

\* solver.add_theory(..)
WrAddTheory ==
    /\ bnd.pc = "solver"
    /\ Len(bnd.theories) < MaxTheories
    /\ bnd' = WriterAddTheory(bnd)
    /\ UNCHANGED <<smtVars, bndOthers>>

\* solver.model.shape.new_write_token(), for a writer that is not a reasoner
WrNewWriteToken ==
    /\ bnd.pc = "solver"
    /\ bnd.external < MaxExternalTokens
    /\ bnd' = NewWriteToken([bnd EXCEPT !.external = @ + 1]).s
    /\ UNCHANGED <<smtVars, bndOthers>>

\* The writers of the causes explained: those handed out, and two ids at the
\* end of the range.
ExplainedWriters(s) == {s.tokens[i].id : i \in DOMAIN s.tokens} \cup {U8Max - 1, U8Max}

\* reasoners.explain(cause, ..)
WrExplain ==
    /\ bnd.pc = "solver"
    /\ \E writer \in ExplainedWriters(bnd) :
          LET to == ReasonersExplain(bnd, writer)
          IN  bnd' = [bnd EXCEPT !.explained = <<[writer |-> writer, to |-> to]>>,
                                 !.pc = IF to = ExplainPanics THEN "panicked" ELSE @]
    /\ UNCHANGED <<smtVars, bndOthers>>

NextWr == WrSolverNew \/ WrAddTheory \/ WrNewWriteToken \/ WrExplain
SpecWr == InitWr /\ [][NextWr]_vars

\* The writer ids registered by the reasoners of the solver.
RegisteredWriters(s) ==
    (IF s.sat_id >= 0 THEN {s.sat_id} ELSE {}) \cup {s.theories[i] : i \in DOMAIN s.theories}

\* C34: the k-th call of new_write_token returns k-1 and the ids handed out
\* are pairwise distinct; a cause is explained by the SAT engine when its
\* writer is the id of the SAT engine, by the i-th theory when it is the id
\* of that theory, and a cause of a writer never registered is explained by
\* no reasoner.
C34_WriterIds ==
    (bnd.pc \in {"solver", "panicked"} /\ "tokens" \in DOMAIN bnd /\ "sat_id" \in DOMAIN bnd) =>
        /\ \A i \in DOMAIN bnd.tokens : bnd.tokens[i].id = bnd.tokens[i].k - 1
        /\ \A i, j \in DOMAIN bnd.tokens :
              bnd.tokens[i].id = bnd.tokens[j].id => i = j
        /\ \A x \in {bnd.explained[i] : i \in DOMAIN bnd.explained} :
              /\ x.writer = bnd.sat_id => x.to = BySat
              /\ \A i \in DOMAIN bnd.theories : x.writer = bnd.theories[i] => x.to = ByTheory(i)
              /\ x.writer \notin RegisteredWriters(bnd) => x.to = ExplainPanics

====
